---------------------------- MODULE Spec2Model ----------------------------
(***************************************************************************)
(* A model of the scoring / ranking / import pipeline of the Scorpion      *)
(* dashboard:                                                              *)
(*   - calculate_technical_indicators, calculate_expert_signal and         *)
(*     ai_generate_signal                     (src/scorpion_backend.py)    *)
(*   - TopOpportunitiesEngine                 (src/top_opportunities_engine.py) *)
(*   - Trading212Integration.import_from_csv  (src/trading212_integration.py)   *)
(*   - analyze_asset and run_live_analysis    (src/scorpion_backend.py)    *)
(*   - the request handlers and the shared market and portfolio data       *)
(*                                       (src/app.py, src/api/index.py)    *)
(*                                                                         *)
(* Python floats are modelled exactly where the arithmetic allows it:      *)
(* a float is a record [k, n, d], the rational n/d (d > 0), or the NaN     *)
(* that IEEE division 0/0 produces.  Quantities of the opportunity engine  *)
(* are fixed-point integers whose unit is stated at each definition.       *)
(***************************************************************************)
EXTENDS Integers, Sequences, FiniteSets, TLC

VARIABLES
    pc,             \* position of the component under analysis
    hist,           \* the OHLCV series (closes) handed to the indicator calculator
    technicals,     \* the dict returned by calculate_technical_indicators
    sig_in,         \* arguments of ai_generate_signal: ticker, technicals, expert_signal
    signal,         \* the dict returned by ai_generate_signal
    market_data,    \* argument of analyze_all_opportunities
    opportunities,  \* TopOpportunitiesEngine.opportunities
    last_update,    \* TopOpportunitiesEngine.last_update (0: None)
    top_3,          \* the list returned by analyze_all_opportunities
    asset_in,       \* argument of _analyze_asset_opportunity
    asset_out,      \* _analyze_asset_opportunity: its three estimates and what it returns
    csv,            \* the rows pd.read_csv yields for the imported file
    quotes,         \* what the quote provider answers per ticker during the import
    portfolio,      \* the dict returned by import_from_csv
    portfolio_data, \* Trading212Integration.portfolio_data
    sample_size,    \* argument of run_live_analysis (0: None)
    test_tickers,   \* run_live_analysis: the tickers of this cycle, in loop order
    fetched,        \* what fetch_real_data got for each ticker analysed so far
    results,        \* run_live_analysis: the list the loop appends to
    batch,          \* the list run_live_analysis returns (None until it has)
    request,        \* the request a handler last answered, with what its collaborators did
    response,       \* the response to it
    served,         \* number of requests answered so far
    app_market_data,    \* app.py: the dict object the global market_data names
    dicts,              \* app.py: the dict objects market_data has named, by identity
    threads,            \* the background loop and the refresh requests in flight
    clock,              \* datetime.now(), counted in calls
    app_portfolio_data, \* app.py: the global portfolio_data
    alerts_data         \* app.py: the global alerts_data

vars == <<pc, hist, technicals, sig_in, signal, market_data, opportunities,
          last_update, top_3, asset_in, asset_out, csv, quotes, portfolio, portfolio_data,
          sample_size, test_tickers, fetched, results, batch,
          request, response, served,
          app_market_data, dicts, threads, clock, app_portfolio_data, alerts_data>>

indicatorVars == <<hist, technicals>>
scorerVars    == <<sig_in, signal>>
rankerVars    == <<market_data, opportunities, last_update, top_3, asset_in, asset_out>>
importVars    == <<csv, quotes, portfolio, portfolio_data>>
cycleVars     == <<sample_size, test_tickers, fetched, results, batch>>
serverVars    == <<request, response, served>>
marketVars    == <<app_market_data, dicts, threads, clock>>
appVars       == <<marketVars, app_portfolio_data, alerts_data>>

-----------------------------------------------------------------------------
(* Generic helpers *)

Min(a, b) == IF a < b THEN a ELSE b
Max(a, b) == IF a > b THEN a ELSE b
Abs(a)    == IF a < 0 THEN -a ELSE a

\* A Python dict with no keys ({}), and None.
EmptyDict == [x \in {} |-> 0]
None      == [k |-> "none"]

\* Floats: the rational n/d, or NaN.
Num(n, d) == [k |-> "num", n |-> n, d |-> d]
NaN       == [k |-> "nan", n |-> 0, d |-> 1]
IsNum(x)  == x.k = "num"

\* IEEE comparisons: every comparison with NaN is False.
Gt(x, y)  == IsNum(x) /\ IsNum(y) /\ x.n * y.d > y.n * x.d
Lt(x, y)  == Gt(y, x)
Ge(x, y)  == IsNum(x) /\ IsNum(y) /\ x.n * y.d >= y.n * x.d
Le(x, y)  == Ge(y, x)
Flt(i)    == Num(i, 1)

RECURSIVE SumSeq(_)
SumSeq(s) == IF s = <<>> THEN 0 ELSE Head(s) + SumSeq(Tail(s))

\* The last n elements of s (n <= Len(s)).
LastN(s, n) == SubSeq(s, Len(s) - n + 1, Len(s))

-----------------------------------------------------------------------------
(* Technical Indicator Calculator: src/scorpion_backend.py *)

MinBars   == 20     \* len(hist) < 20 returns {}
RsiWindow == 14     \* rolling(14)
Sma50Bars == 50
Mom3mBars == 60

\* Bounds of the series family the calculator is run on.
MaxBars   == 61
TailLen   == 4
BasePrice == 100

\* A series of n closes: a head that moves by `trend` every bar, then up to
\* TailLen bars that move by the deltas of `tail`.
Series(n, trend, tail) ==
    LET k == Min(TailLen, n)
        h == n - k
    IN  [i \in 1..n |->
            IF i <= h THEN BasePrice + trend * i
            ELSE BasePrice + trend * h + SumSeq(SubSeq(tail, 1, i - h))]

Deltas == {-1, 0, 1}

SeriesFamily ==
    { Series(n, trend, tail) :
        n \in 0..MaxBars, trend \in Deltas, tail \in [1..TailLen -> Deltas] }

\* close.diff(): NaN at the first bar, close[i] - close[i-1] after it; the
\* .where(delta > 0, 0) / .where(delta < 0, 0) calls replace the NaN by 0.
Gain(close, i) == IF i > 1 /\ close[i] - close[i-1] > 0 THEN close[i] - close[i-1] ELSE 0
Loss(close, i) == IF i > 1 /\ close[i] - close[i-1] < 0 THEN close[i-1] - close[i] ELSE 0

\* Sum of f(close, i) over the last w bars.
RECURSIVE RollingSum(_, _, _, _)
RollingSum(kind, close, i, w) ==
    IF w = 0 THEN 0
    ELSE (IF kind = "gain" THEN Gain(close, i) ELSE Loss(close, i))
         + RollingSum(kind, close, i - 1, w - 1)

\* IEEE division of two non-negative rolling means (sum / w each): x/0 is
\* +inf for x > 0 and NaN for x = 0.
Rsi(close) ==
    LET g == RollingSum("gain", close, Len(close), RsiWindow)
        l == RollingSum("loss", close, Len(close), RsiWindow)
    IN  IF l = 0
        THEN IF g = 0 THEN NaN          \* rs = 0/0 = NaN, 100 - 100/(1+NaN) = NaN
                      ELSE Flt(100)     \* rs = inf, 100 - 100/inf = 100
        ELSE Num(100 * g, g + l)        \* 100 - 100/(1 + g/l)

\* ((close[-1] / close[-k]) - 1) * 100 if len(hist) >= k else 0
Momentum(close, k) ==
    IF Len(close) >= k
    THEN Num(100 * (close[Len(close)] - close[Len(close) - k + 1]), close[Len(close) - k + 1])
    ELSE Flt(0)

\* close.rolling(n).mean().iloc[-1]: NaN while fewer than n bars are there.
Sma(close, n) == IF Len(close) < n THEN NaN ELSE Num(SumSeq(LastN(close, n)), n)

\* if len(hist) < 20: return {}
TooShortForRsiOnly(h) == Len(h) < RsiWindow
TooShort(h) == Len(h) < MinBars

calculate_technical_indicators(h) ==
    IF TooShort(h) THEN EmptyDict
    ELSE [ price       |-> Flt(h[Len(h)]),
           sma_20      |-> Sma(h, 20),
           sma_50      |-> IF Len(h) >= Sma50Bars THEN Sma(h, 50) ELSE Sma(h, 20),
           rsi         |-> Rsi(h),
           momentum_1w |-> Momentum(h, 5),
           momentum_1m |-> Momentum(h, 20),
           momentum_3m |-> Momentum(h, Mom3mBars) ]


-----------------------------------------------------------------------------
(* Expert Holdings Lookup: src/scorpion_backend.py *)

\* EXPERT_PORTFOLIOS, in dict order (name, holdings, weight).
EXPERT_PORTFOLIOS ==
    << [name |-> "Warren Buffett", weight |-> 10,
        holdings |-> {"AAPL", "BAC", "AXP", "KO", "CVX", "OXY", "V", "MCO"}],
       [name |-> "Cathie Wood (ARK)", weight |-> 9,
        holdings |-> {"TSLA", "COIN", "ROKU", "SQ", "PLTR", "SHOP", "SPOT", "CRSP",
                      "TDOC", "BTC-USD", "ETH-USD"}],
       [name |-> "BlackRock", weight |-> 10,
        holdings |-> {"AAPL", "MSFT", "GOOGL", "AMZN", "NVDA", "META", "JPM", "V",
                      "MA", "UNH", "LLY", "JNJ"}],
       [name |-> "Vanguard", weight |-> 10,
        holdings |-> {"AAPL", "MSFT", "GOOGL", "AMZN", "NVDA", "META", "TSLA", "JPM",
                      "V", "MA", "HD", "WMT"}],
       [name |-> "Crypto Whales", weight |-> 7,
        holdings |-> {"BTC-USD", "ETH-USD", "BNB-USD", "SOL-USD", "XRP-USD", "ADA-USD",
                      "AVAX-USD", "MATIC-USD"}] >>

RECURSIVE HoldingExperts(_, _)
HoldingExperts(ticker, i) ==
    IF i > Len(EXPERT_PORTFOLIOS) THEN <<>>
    ELSE (IF ticker \in EXPERT_PORTFOLIOS[i].holdings THEN <<i>> ELSE <<>>)
         \o HoldingExperts(ticker, i + 1)

calculate_expert_signal(ticker) ==
    LET idx == HoldingExperts(ticker, 1)
    IN  [ experts       |-> [j \in 1..Len(idx) |-> EXPERT_PORTFOLIOS[idx[j]].name],
          num_experts   |-> Len(idx),
          expert_weight |-> SumSeq([j \in 1..Len(idx) |-> EXPERT_PORTFOLIOS[idx[j]].weight]) ]

-----------------------------------------------------------------------------
(* Asset Scorer: src/scorpion_backend.py, ai_generate_signal *)

\* score = min(max(score, 0), 100)
NormalizeScoreNoCeiling(score) == Max(score, 0)
NormalizeScore(score) == Min(Max(score, 0), 100)

RecommendStrict(score) ==
    IF score > 75 THEN
        [recommendation |-> "STRONG BUY", confidence |-> "High", risk_level |-> "Medium"]
    ELSE IF score > 65 THEN
        [recommendation |-> "BUY", confidence |-> "Medium-High", risk_level |-> "Medium"]
    ELSE IF score > 50 THEN
        [recommendation |-> "MODERATE BUY", confidence |-> "Medium", risk_level |-> "Medium"]
    ELSE IF score > 40 THEN
        [recommendation |-> "HOLD", confidence |-> "Medium", risk_level |-> "Medium"]
    ELSE IF score > 30 THEN
        [recommendation |-> "MODERATE SELL", confidence |-> "Medium", risk_level |-> "High"]
    ELSE IF score > 20 THEN
        [recommendation |-> "SELL", confidence |-> "Medium-High", risk_level |-> "High"]
    ELSE
        [recommendation |-> "STRONG SELL", confidence |-> "High", risk_level |-> "Very High"]

\* The if/elif chain on the normalised score.
Recommend(score) ==
    IF score >= 75 THEN
        [recommendation |-> "STRONG BUY", confidence |-> "High", risk_level |-> "Medium"]
    ELSE IF score >= 65 THEN
        [recommendation |-> "BUY", confidence |-> "Medium-High", risk_level |-> "Medium"]
    ELSE IF score >= 50 THEN
        [recommendation |-> "MODERATE BUY", confidence |-> "Medium", risk_level |-> "Medium"]
    ELSE IF score >= 40 THEN
        [recommendation |-> "HOLD", confidence |-> "Medium", risk_level |-> "Medium"]
    ELSE IF score >= 30 THEN
        [recommendation |-> "MODERATE SELL", confidence |-> "Medium", risk_level |-> "High"]
    ELSE IF score >= 20 THEN
        [recommendation |-> "SELL", confidence |-> "Medium-High", risk_level |-> "High"]
    ELSE
        [recommendation |-> "STRONG SELL", confidence |-> "High", risk_level |-> "Very High"]

\* Each component is the pair <<points, reasoning entries appended>>; a reasoning
\* entry is modelled by the kind of the sentence the code appends.
ExpertComponent(es) ==
    << es.expert_weight * 4,
       IF es.num_experts > 0 THEN <<"experts">> ELSE <<>> >>

MomentumComponent(t) ==
    IF Gt(t.momentum_3m, Flt(15)) THEN <<25, <<"momentum">> >>
    ELSE IF Gt(t.momentum_3m, Flt(5)) THEN <<15, <<"momentum">> >>
    ELSE IF Lt(t.momentum_3m, Flt(-15)) THEN <<-10, <<"momentum">> >>
    ELSE <<0, <<>> >>

TrendComponent(t) ==
    IF Gt(t.price, t.sma_20) /\ Gt(t.sma_20, t.sma_50) THEN <<10, <<"trend">> >>
    ELSE IF Lt(t.price, t.sma_20) THEN <<-5, <<"trend">> >>
    ELSE <<0, <<>> >>

RsiComponent(t) ==
    IF Lt(Flt(40), t.rsi) /\ Lt(t.rsi, Flt(60)) THEN <<5, <<"rsi">> >>
    ELSE IF Lt(t.rsi, Flt(30)) THEN <<8, <<"rsi">> >>
    ELSE IF Gt(t.rsi, Flt(70)) THEN <<-5, <<"rsi">> >>
    ELSE <<0, <<>> >>

MacdComponent(t) ==
    IF Gt(t.macd, t.macd_signal) THEN <<5, <<"macd">> >> ELSE <<0, <<>> >>

VolumeComponentOneTier(t) ==
    IF Gt(t.volume_ratio, Num(12, 10)) THEN <<10, <<"volume">> >>
    ELSE <<0, <<>> >>

VolumeComponent(t) ==
    IF Gt(t.volume_ratio, Num(15, 10)) THEN <<10, <<"volume">> >>
    ELSE IF Gt(t.volume_ratio, Num(12, 10)) THEN <<5, <<>> >>
    ELSE <<0, <<>> >>

BollingerReasoning(t) ==
    IF Lt(t.bb_position, Num(2, 10)) THEN <<"bollinger">>
    ELSE IF Gt(t.bb_position, Num(8, 10)) THEN <<"bollinger">>
    ELSE <<>>

\* reasoning.append(...) in the order the statements run: the volume entry
\* is appended after MACD, the Bollinger entry after the recommendation.
ReasoningBollingerFirst(e, m, tr, r, mc, v, bb) == bb \o e \o m \o tr \o r \o mc \o v
Reasoning(e, m, tr, r, mc, v, bb) == e \o m \o tr \o r \o mc \o v \o bb

ai_generate_signal(ticker, t, es) ==
    LET e   == ExpertComponent(es)
        m   == MomentumComponent(t)
        tr  == TrendComponent(t)
        r   == RsiComponent(t)
        mc  == MacdComponent(t)
        v   == VolumeComponent(t)
        raw == e[1] + m[1] + (tr[1] + r[1] + mc[1]) + v[1]
        score == NormalizeScore(raw)
        rec == Recommend(score)
    IN  [ score          |-> score,
          recommendation |-> rec.recommendation,
          confidence     |-> rec.confidence,
          risk_level     |-> rec.risk_level,
          reasoning      |-> Reasoning(e[2], m[2], tr[2], r[2], mc[2], v[2],
                                       BollingerReasoning(t)) ]

\* The inputs the scorer is run on.
ScorerTickers == {"XOM", "SOL-USD", "BAC", "MSFT", "AAPL"}

\* A direct call with an expert signal beyond what the table can produce.
ExtremeExpertSignal ==
    [experts |-> <<"Warren Buffett">>, num_experts |-> 10, expert_weight |-> 100]

ScorerExpertSignals ==
    { [ticker |-> tk, es |-> calculate_expert_signal(tk)] : tk \in ScorerTickers }
    \cup { [ticker |-> "SYNTH", es |-> ExtremeExpertSignal] }

ScorerTechnicals ==
    { [ price        |-> Flt(p),
        sma_20       |-> Flt(10),
        sma_50       |-> Flt(s50),
        rsi          |-> r,
        macd         |-> Flt(mc),
        macd_signal  |-> Flt(0),
        volume_ratio |-> Num(v, 10),
        momentum_3m  |-> Flt(m),
        bb_position  |-> Num(bb, 10) ] :
        p \in {9, 10, 11}, s50 \in {9, 10},
        r \in {NaN, Flt(29), Flt(30), Flt(40), Flt(50), Flt(60), Flt(70), Flt(71)},
        mc \in {0, 1}, v \in {12, 13, 15, 16},
        m \in {-16, 0, 6, 15, 16}, bb \in {1, 5, 9} }

-----------------------------------------------------------------------------
(* Opportunity Ranker: src/top_opportunities_engine.py                     *)
(*                                                                         *)
(* Fixed point: profit_probability, profit_target, risk_level and          *)
(* position_size are integers in units of 1/10000, rounded down;           *)
(* profit_score is an integer in units of 1/(100000 * 20000).              *)

min_profit_probability == 7500      \* 0.75
min_profit_target      == 1500      \* 0.15
max_risk_level         == 2000      \* 0.20

\* `word in sector.lower()` for the sectors of the model.
SectorWords(sector) ==
    CASE sector = "Crypto"       -> {"crypto"}
      [] sector = "Us/Small/Cap" -> {"small"}
      [] sector = "Us/Large/Cap" -> {"large"}
      [] sector = "Technology"   -> {"tech"}
      [] sector = "Biotech"      -> {"biotech", "tech"}
      [] OTHER                   -> {}

\* In 1/100.
estimate_volatility(asset) ==
    LET w == SectorWords(asset.sector)
    IN  IF "crypto" \in w THEN 60
        ELSE IF "small" \in w THEN 40
        ELSE IF "tech" \in w THEN 30
        ELSE IF "large" \in w THEN 20
        ELSE 25

\* score/100 alone, clamped.
ProfitProbabilityFromScore(asset) == Max(5000, Min(9500, asset.score * 100))

calculate_profit_probability(asset) ==
    LET m  == asset.momentum_3m
        momentum_factor ==              \* in 1/10
            IF Gt(m, Flt(15)) THEN 12
            ELSE IF Gt(m, Flt(5)) THEN 11
            ELSE IF Lt(m, Flt(-15)) THEN 7
            ELSE IF Lt(m, Flt(-5)) THEN 8
            ELSE 10
        rsi_factor ==                   \* in 1/10
            IF Le(Flt(30), asset.rsi) /\ Le(asset.rsi, Flt(70)) THEN 11
            ELSE IF Gt(asset.rsi, Flt(80)) \/ Lt(asset.rsi, Flt(20)) THEN 8
            ELSE 10
        volume_factor ==                \* in 1/100
            IF Gt(asset.volume_ratio, Num(15, 10)) THEN 115
            ELSE IF Lt(asset.volume_ratio, Num(7, 10)) THEN 90
            ELSE 100
        expert_factor == 100 + Len(asset.experts) * 5       \* in 1/100
        \* score/100 * factors, in 1/10^8, brought to 1/10^4
        final_prob == (asset.score * momentum_factor * rsi_factor
                        * volume_factor * expert_factor) \div 10000
    IN  Max(5000, Min(9500, final_prob))

\* (score/100) * 0.30 alone, clamped.
ProfitTargetFromScore(asset) == Max(1000, Min(5000, asset.score * 30))

calculate_profit_target(asset) ==
    LET m == asset.momentum_3m
        volatility == estimate_volatility(asset)
        momentum_multiplier ==          \* in 1/10
            IF Gt(m, Flt(20)) THEN 13
            ELSE IF Gt(m, Flt(10)) THEN 12
            ELSE IF Gt(m, Flt(0)) THEN 11
            ELSE 9
        volatility_multiplier == 100 + (volatility - 20)    \* in 1/100
        \* (score/100) * 0.30 * multipliers, in 1/10^7, brought to 1/10^4
        final_target == (asset.score * 30 * momentum_multiplier
                          * volatility_multiplier) \div 1000
    IN  Max(1000, Min(5000, final_target))

\* 0.4 * base_risk alone, clamped.
RiskLevelFromScore(asset) == Max(500, Min(4000, (100 - asset.score) * 40))

calculate_risk_level(asset) ==
    LET m == asset.momentum_3m
        momentum == (Abs(m.n) * 100) \div m.d               \* abs(momentum)/100
        volatility == estimate_volatility(asset) * 100
        w == SectorWords(asset.sector)
        base_risk == (100 - asset.score) * 100
        momentum_risk == Min(3000, momentum)
        volatility_risk == Min(4000, volatility)
        sector_risk == IF "crypto" \in w THEN 3000
                       ELSE IF "small" \in w THEN 2000
                       ELSE IF "biotech" \in w THEN 2500
                       ELSE 0
        final_risk == (base_risk * 4 + momentum_risk * 3 + volatility_risk * 2
                        + sector_risk * 1) \div 10
    IN  Max(500, Min(4000, final_risk))

\* No discount at any momentum.
EntryAtCurrentPrice(asset) == asset.price

calculate_entry_price(asset) ==
    IF Gt(asset.momentum_3m, Flt(15)) THEN Num(asset.price.n * 98, asset.price.d * 100)
    ELSE IF Gt(asset.momentum_3m, Flt(5)) THEN Num(asset.price.n * 99, asset.price.d * 100)
    ELSE asset.price

\* entry * (1 - (0.10 + risk_level * 0.15)) = entry * (180000 - 3 risk) / 200000
calculate_stop_loss(asset) ==
    LET entry_price == calculate_entry_price(asset)
        risk_level  == calculate_risk_level(asset)
    IN  Num(entry_price.n * (180000 - 3 * risk_level), entry_price.d * 200000)

\* profit_probability * 0.15 * (1 - risk_level * 0.5), clamped to [0.03, 0.12]
calculate_position_size(asset, risk_level) ==
    LET profit_probability == calculate_profit_probability(asset)
        final_size == (profit_probability * 3 * (20000 - risk_level)) \div 400000
    IN  Max(300, Min(1200, final_size))

calculate_timeline(asset) ==
    LET m == asset.momentum_3m
    IN  IF Gt(m, Flt(20)) /\ estimate_volatility(asset) < 30 THEN "2-3 months"
        ELSE IF Gt(m, Flt(10)) THEN "3-4 months"
        ELSE IF Gt(m, Flt(0)) THEN "4-6 months"
        ELSE "6-12 months"

calculate_confidence(asset) ==
    LET profit_probability == calculate_profit_probability(asset)
    IN  IF profit_probability >= 8500 THEN "Very High"
        ELSE IF profit_probability >= 8000 THEN "High"
        ELSE IF profit_probability >= 7500 THEN "Medium-High"
        ELSE "Medium"

\* profit_probability * profit_target * (1 - risk_level * 0.5)
ProfitScore(profit_probability, profit_target, risk_level) ==
    ((profit_probability * profit_target) \div 1000) * (20000 - risk_level)

\* The early returns of _analyze_asset_opportunity.
BelowCriteria(profit_probability, profit_target, risk_level) ==
    \/ profit_probability < min_profit_probability
    \/ profit_target < min_profit_target
    \/ risk_level > max_risk_level

\* `src` is the index of the asset in the batch: it stands for the identity of
\* the Python dict and is read by no operation.
analyze_asset_opportunity(asset, src) ==
    LET profit_probability == calculate_profit_probability(asset)
        profit_target      == calculate_profit_target(asset)
        risk_level         == calculate_risk_level(asset)
    IN  IF asset.ticker = "" THEN None
        ELSE IF BelowCriteria(profit_probability, profit_target, risk_level) THEN None
        ELSE [ k                  |-> "opportunity",
               src                |-> src,
               ticker             |-> asset.ticker,
               current_price      |-> asset.price,
               profit_target      |-> profit_target,
               profit_probability |-> profit_probability,
               risk_level         |-> risk_level,
               profit_score       |-> ProfitScore(profit_probability, profit_target, risk_level),
               entry_price        |-> calculate_entry_price(asset),
               stop_loss          |-> calculate_stop_loss(asset),
               position_size      |-> calculate_position_size(asset, risk_level),
               timeline           |-> calculate_timeline(asset),
               confidence         |-> calculate_confidence(asset),
               sector             |-> asset.sector,
               detailed           |-> FALSE ]

meets_criteria(opportunity) ==
    /\ opportunity.profit_probability >= min_profit_probability
    /\ opportunity.profit_target >= min_profit_target
    /\ opportunity.risk_level <= max_risk_level

\* for asset in assets: ... opportunities.append(opportunity)
RECURSIVE CollectOpportunities(_, _)
CollectOpportunities(assets, i) ==
    IF i > Len(assets) THEN <<>>
    ELSE LET opportunity == analyze_asset_opportunity(assets[i], i)
         IN  (IF opportunity # None /\ meets_criteria(opportunity)
              THEN <<opportunity>> ELSE <<>>)
             \o CollectOpportunities(assets, i + 1)

\* list.sort(key=profit_score, reverse=True): a stable sort, and reverse=True
\* keeps the original order of elements with equal keys.  Inserting the
\* elements left to right, each after every element whose key is not smaller.
RECURSIVE InsertByScoreUnstable(_, _)
InsertByScoreUnstable(x, sorted) ==
    IF sorted = <<>> THEN <<x>>
    ELSE IF Head(sorted).profit_score > x.profit_score
         THEN <<Head(sorted)>> \o InsertByScoreUnstable(x, Tail(sorted))
         ELSE <<x>> \o sorted

RECURSIVE InsertByScore(_, _)
InsertByScore(x, sorted) ==
    IF sorted = <<>> THEN <<x>>
    ELSE IF Head(sorted).profit_score >= x.profit_score
         THEN <<Head(sorted)>> \o InsertByScore(x, Tail(sorted))
         ELSE <<x>> \o sorted

RECURSIVE SortByScore(_, _)
SortByScore(s, acc) ==
    IF s = <<>> THEN acc ELSE SortByScore(Tail(s), InsertByScore(Head(s), acc))

\* opportunities[:3]
TopN == 3
TopUncut(s) == s
Top(s) == SubSeq(s, 1, Min(TopN, Len(s)))

\* _get_detailed_analysis adds six text fields when _find_asset finds the ticker.
get_detailed_analysis(opp, assets) ==
    IF \E i \in 1..Len(assets) : assets[i].ticker = opp.ticker
    THEN [opp EXCEPT !.detailed = TRUE] ELSE opp

\* _get_default_opportunities
DefaultOpportunity(ticker, price, target, prob, risk, score, entry, stop, size, timeline, conf) ==
    [ k |-> "opportunity", src |-> 0, ticker |-> ticker, current_price |-> Flt(price),
      profit_target |-> target, profit_probability |-> prob, risk_level |-> risk,
      profit_score |-> score, entry_price |-> Flt(entry), stop_loss |-> Flt(stop),
      position_size |-> size, timeline |-> timeline, confidence |-> conf,
      sector |-> "Technology", detailed |-> TRUE ]

get_default_opportunities ==
    << DefaultOpportunity("NVDA", 420, 2800, 8700, 1500, 1700000000, 415, 380, 800,
                          "3 months", "Very High"),
       DefaultOpportunity("MSFT", 380, 2200, 8200, 1200, 1560000000, 375, 350, 1000,
                          "4 months", "High"),
       DefaultOpportunity("AAPL", 180, 1800, 7900, 1000, 1500000000, 178, 165, 1200,
                          "6 months", "High") >>

\* `not market_data` alone.
NoMarketData(md) == md.k \in {"none", "empty"}

\* `not market_data or not market_data.get('assets')`
NoAssets(md) == md.k \in {"none", "empty"} \/ md.assets = <<>>

\* The list analyze_all_opportunities returns for a batch with assets.
RankAssets(assets) ==
    LET top == Top(SortByScore(CollectOpportunities(assets, 1), <<>>))
    IN  [i \in 1..Len(top) |-> get_detailed_analysis(top[i], assets)]

\* The market data the ranker is run on.
MaxAssets == 4

Asset(ticker, sector, score, momentum, rsi, volume10, experts, price) ==
    [ ticker |-> ticker, sector |-> sector, score |-> score, momentum_3m |-> Flt(momentum),
      rsi |-> rsi, volume_ratio |-> Num(volume10, 10), experts |-> experts,
      price |-> Flt(price) ]

AssetPool ==
    { Asset("NVDA", "Technology", 90, 20, Flt(55), 16, <<"BlackRock", "Vanguard">>, 50),
      Asset("AMD", "Technology", 90, 20, Flt(55), 16, <<"BlackRock", "Vanguard">>, 50),
      Asset("MSFT", "Us/Large/Cap", 80, 12, Flt(50), 10, <<"BlackRock", "Vanguard">>, 40),
      Asset("V", "Us/Large/Cap", 85, 8, NaN, 10,
            <<"Warren Buffett", "BlackRock", "Vanguard">>, 30),
      Asset("BTC-USD", "Crypto", 95, 25, Flt(75), 16,
            <<"Cathie Wood (ARK)", "Crypto Whales">>, 60),
      Asset("KO", "Us/Large/Cap", 70, 0, Flt(50), 10, <<"Warren Buffett">>, 10),
      Asset("XOM", "Other", 60, 0, Flt(50), 10, <<>>, 20),
      Asset("", "Technology", 90, 20, Flt(55), 16, <<>>, 50) }

\* The assets _analyze_asset_opportunity is run on, one at a time: every
\* branch of the three estimates, on both sides of each threshold.
AssetScores   == {0, 50, 80, 100}
AssetMomenta  == {-16, -15, -6, -5, 0, 1, 5, 6, 10, 11, 15, 16, 20, 21, 40}
AssetRsis     == {NaN, Flt(19), Flt(20), Flt(30), Flt(55), Flt(70), Flt(80), Flt(81)}
AssetVolumes  == {6, 7, 15, 16}
AssetExperts  == {<<>>, <<"BlackRock">>, <<"BlackRock", "Vanguard">>}
AssetSectors  == {"Crypto", "Us/Small/Cap", "Us/Large/Cap", "Technology", "Biotech", "Other"}
AssetPrices   == {0, 50}

AssetFamily ==
    { Asset("NVDA", sector, score, momentum, rsi, volume10, experts, price) :
        sector \in AssetSectors, score \in AssetScores, momentum \in AssetMomenta,
        rsi \in AssetRsis, volume10 \in AssetVolumes, experts \in AssetExperts,
        price \in AssetPrices }

RECURSIVE SeqsUpTo(_, _)
SeqsUpTo(S, n) ==
    IF n = 0 THEN {<<>>}
    ELSE LET shorter == SeqsUpTo(S, n - 1)
         IN  shorter \cup { Append(s, x) : s \in {t \in shorter : Len(t) = n - 1}, x \in S }

MarketDataFamily ==
    { [k |-> "none", assets |-> <<>>], [k |-> "empty", assets |-> <<>>] }
    \cup { [k |-> "dict", assets |-> a] : a \in SeqsUpTo(AssetPool, MaxAssets) }

-----------------------------------------------------------------------------
(* Portfolio Importer: src/trading212_integration.py                       *)
(*                                                                         *)
(* A row of the DataFrame is a function from the column names of the file  *)
(* to cells.  A cell is NaN (an empty field), a number, or a text; numbers *)
(* are integers.                                                           *)

NaNCell      == [k |-> "nan",  s |-> "",  v |-> 0]
NumCell(v)   == [k |-> "num",  s |-> "",  v |-> v]
TextCell(s)  == [k |-> "text", s |-> s,   v |-> 0]

\* float(text): the texts of the model that parse, with their values.
NumericTexts == ("2" :> 2) @@ ("0" :> 0)

\* pd.notna(cell)
NotNa(cell) == cell.k # "nan"

\* float(cell) succeeds
Parses(cell) == cell.k = "num" \/ (cell.k = "text" /\ cell.s \in DOMAIN NumericTexts)
FloatOf(cell) == IF cell.k = "num" THEN cell.v ELSE NumericTexts[cell.s]

\* str(cell).strip(): the texts of the model keep no surrounding blanks but "  ".
StrStrip(cell) == IF cell.k = "text" THEN (IF cell.s = "  " THEN "" ELSE cell.s)
                  ELSE "number"

InstrumentCols   == <<"Instrument", "Symbol", "Ticker", "Name">>
QuantityCols     == <<"Quantity", "Shares", "Units", "Size">>
AvgPriceCols     == <<"Average price", "Avg Price", "Entry Price", "Cost per share">>
CurrentPriceCols == <<"Current price", "Current Price", "Market Price", "Last Price">>
PnlCols          == <<"P&L", "Profit/Loss", "Unrealized P&L", "Gain/Loss">>

\* for col in cols: if col in row and pd.notna(row[col]): return str(row[col]).strip()
RECURSIVE ExtractText(_, _, _)
ExtractText(row, cols, i) ==
    IF i > Len(cols) THEN None
    ELSE IF cols[i] \in DOMAIN row /\ NotNa(row[cols[i]])
         THEN [k |-> "str", s |-> StrStrip(row[cols[i]])]
         ELSE ExtractText(row, cols, i + 1)

\* The first column that is there decides, parseable or not.
RECURSIVE ExtractFloatFirstOnly(_, _, _)
ExtractFloatFirstOnly(row, cols, i) ==
    IF i > Len(cols) THEN None
    ELSE IF cols[i] \in DOMAIN row /\ NotNa(row[cols[i]])
         THEN (IF Parses(row[cols[i]]) THEN [k |-> "float", v |-> FloatOf(row[cols[i]])]
               ELSE None)
         ELSE ExtractFloatFirstOnly(row, cols, i + 1)

\* for col in cols: if col in row and pd.notna(row[col]):
\*     try: return float(row[col])  except: continue
RECURSIVE ExtractFloat(_, _, _)
ExtractFloat(row, cols, i) ==
    IF i > Len(cols) THEN None
    ELSE IF cols[i] \in DOMAIN row /\ NotNa(row[cols[i]]) /\ Parses(row[cols[i]])
         THEN [k |-> "float", v |-> FloatOf(row[cols[i]])]
         ELSE ExtractFloat(row, cols, i + 1)

extract_instrument(row)    == ExtractText(row, InstrumentCols, 1)
extract_quantity(row)      == ExtractFloat(row, QuantityCols, 1)
extract_avg_price(row)     == ExtractFloat(row, AvgPriceCols, 1)
extract_current_price(row) == ExtractFloat(row, CurrentPriceCols, 1)
extract_pnl(row)           == ExtractFloat(row, PnlCols, 1)

TruthyIfNotNone(x) == x # None
\* Python truthiness of an extracted value: None, "" and 0.0 are false.
Truthy(x) == x # None /\ (x.k = "str" => x.s # "") /\ (x.k = "float" => x.v # 0)

\* 'value': float(quantity) * float(current_price) if current_price else 0
PositionValue(quantity, current_price) ==
    IF Truthy(current_price) THEN quantity.v * current_price.v ELSE 0

\* The position dict built from one row, with weight 0; `row` is the index of
\* the row in the file: it stands for the identity of the dict and is read by
\* no operation.
NewPosition(r, i) ==
    LET quantity      == extract_quantity(r)
        avg_price     == extract_avg_price(r)
        current_price == extract_current_price(r)
        pnl           == extract_pnl(r)
    IN  [ row           |-> i,
          ticker        |-> extract_instrument(r).s,
          shares        |-> quantity.v,
          avg_price     |-> avg_price.v,
          current_price |-> IF Truthy(current_price) THEN current_price ELSE None,
          pnl           |-> IF Truthy(pnl) THEN pnl.v ELSE 0,
          value         |-> PositionValue(quantity, current_price),
          weight        |-> Flt(0) ]

\* if instrument and quantity and avg_price:
RowAccepted(r) ==
    /\ Truthy(extract_instrument(r))
    /\ Truthy(extract_quantity(r))
    /\ Truthy(extract_avg_price(r))

\* The loop over df.iterrows().
RECURSIVE ReadPositions(_, _)
ReadPositions(rows, i) ==
    IF i > Len(rows) THEN <<>>
    ELSE (IF RowAccepted(rows[i]) THEN <<NewPosition(rows[i], i)>> ELSE <<>>)
         \o ReadPositions(rows, i + 1)

SumField(ps, f) == SumSeq([i \in 1..Len(ps) |-> ps[i][f]])

\* Weights taken from the running total while the rows are read.
CalculateWeightsRunning(ps, total_value) ==
    [i \in 1..Len(ps) |->
        LET running == SumSeq([j \in 1..i |-> ps[j].value])
        IN  IF running > 0
            THEN [ps[i] EXCEPT !.weight = Num(ps[i].value * 100, running)]
            ELSE ps[i]]

\* # Calculate weights
CalculateWeights(ps, total_value) ==
    [i \in 1..Len(ps) |->
        IF total_value > 0
        THEN [ps[i] EXCEPT !.weight = Num(ps[i].value * 100, total_value)]
        ELSE ps[i]]

\* _update_current_prices: a position without a current price gets the last
\* close the provider returns, if it returns one.
History(q, ticker) == IF ticker \in DOMAIN q THEN q[ticker] ELSE [k |-> "empty", v |-> 0]

UpdateCurrentPrice(p, q) ==
    IF p.current_price = None /\ History(q, p.ticker).k = "price"
    THEN [p EXCEPT !.current_price = [k |-> "float", v |-> History(q, p.ticker).v],
                   !.value = p.shares * History(q, p.ticker).v]
    ELSE p

update_current_prices(ps, q) == [i \in 1..Len(ps) |-> UpdateCurrentPrice(ps[i], q)]

import_from_csv(file, q) ==
    IF ~file.readable THEN EmptyDict
    ELSE LET read        == ReadPositions(file.rows, 1)
             total_value == SumField(read, "value")
             total_pnl   == SumField(read, "pnl")
             weighted    == CalculateWeights(read, total_value)
         IN  [ positions   |-> update_current_prices(weighted, q),
               total_value |-> total_value,
               total_pnl   |-> total_pnl,
               source      |-> "Trading212" ]

\* The files the importer is run on.
MaxRows == 3

CanonicalRow(ticker, quantity, avg_price, current_price, pnl) ==
    ("Instrument" :> ticker) @@ ("Quantity" :> quantity) @@ ("Average price" :> avg_price)
    @@ ("Current price" :> current_price) @@ ("P&L" :> pnl)

RowPool ==
    { CanonicalRow(TextCell("AAPL"), NumCell(2), NumCell(10), NumCell(12), NumCell(4)),
      CanonicalRow(TextCell("TSLA"), NumCell(3), NumCell(5), NaNCell, NaNCell),
      CanonicalRow(NaNCell, NumCell(1), NumCell(10), NumCell(11), NaNCell),
      CanonicalRow(TextCell("  "), NumCell(1), NumCell(10), NumCell(11), NaNCell),
      CanonicalRow(TextCell("AAPL"), TextCell("abc"), NumCell(10), NumCell(12), NaNCell),
      CanonicalRow(TextCell("TSLA"), TextCell("2"), NumCell(5), NumCell(0), NumCell(1)),
      CanonicalRow(TextCell("TSLA"), NumCell(0), NumCell(5), NumCell(6), NaNCell),
      CanonicalRow(TextCell("AAPL"), NumCell(2), NaNCell, NumCell(12), NaNCell),
      CanonicalRow(TextCell("AAPL"), NumCell(1), NumCell(0), NumCell(25), NaNCell) }

\* Rows whose header names one field by other aliases.  A layout gives, per
\* field, the cell under each of its four aliases, Absent for a column the
\* file does not have.
Absent == [k |-> "absent", s |-> "", v |-> 0]

Fields == {"instrument", "quantity", "avg_price", "current_price", "pnl"}

ColsOf(f) ==
    CASE f = "instrument"    -> InstrumentCols
      [] f = "quantity"      -> QuantityCols
      [] f = "avg_price"     -> AvgPriceCols
      [] f = "current_price" -> CurrentPriceCols
      [] f = "pnl"           -> PnlCols

MakeRow(layout) ==
    LET places == { <<f, i>> \in Fields \X (1..4) : layout[f][i] # Absent }
    IN  [ c \in { ColsOf(pl[1])[pl[2]] : pl \in places } |->
            LET pl == CHOOSE x \in places : ColsOf(x[1])[x[2]] = c
            IN  layout[pl[1]][pl[2]] ]

BaseCell(f) ==
    CASE f = "instrument"    -> TextCell("AAPL")
      [] f = "quantity"      -> NumCell(2)
      [] f = "avg_price"     -> NumCell(10)
      [] f = "current_price" -> NumCell(12)
      [] f = "pnl"           -> NumCell(4)

\* What the higher-priority alias holds when a second alias holds the base cell.
FirstCells(f) ==
    IF f = "instrument" THEN {NaNCell, TextCell("TSLA"), TextCell("  ")}
    ELSE {NaNCell, NumCell(3), TextCell("abc")}

OnlyAt(i, cell)          == [n \in 1..4 |-> IF n = i THEN cell ELSE Absent]
TwoAt(i, first, j, cell) == [n \in 1..4 |-> IF n = i THEN first
                                            ELSE IF n = j THEN cell ELSE Absent]

AliasCells(f) ==
    { OnlyAt(i, BaseCell(f)) : i \in 1..4 }
    \cup { TwoAt(pr[1], first, pr[2], BaseCell(f)) :
             pr \in { x \in (1..4) \X (1..4) : x[1] < x[2] }, first \in FirstCells(f) }

AliasRows ==
    { MakeRow([g \in Fields |-> IF g = f THEN cells ELSE OnlyAt(1, BaseCell(g))]) :
        <<f, cells>> \in UNION { {f} \X AliasCells(f) : f \in Fields } }

\* read_csv fails, or yields up to MaxRows rows of one header.
FileFamily ==
    { [readable |-> FALSE, rows |-> <<>>] }
    \cup { [readable |-> TRUE, rows |-> rs] : rs \in SeqsUpTo(RowPool, MaxRows) }
    \cup { [readable |-> TRUE, rows |-> <<r>>] : r \in AliasRows }

ImportTickers == {"AAPL", "TSLA"}

\* ticker.history(period='1d'): raises, is empty, or has a last close.
QuoteOutcomes == { [k |-> "error", v |-> 0], [k |-> "empty", v |-> 0], [k |-> "price", v |-> 7] }

-----------------------------------------------------------------------------
(* Analysis cycle: src/scorpion_backend.py, analyze_asset and              *)
(* run_live_analysis                                                       *)

\* UNIVERSE, abridged to two sectors; the repeated entries of the source's
\* lists are kept ('VET-USD' is listed twice under 'crypto').
UNIVERSE ==
    << [sector |-> "crypto",       tickers |-> <<"BTC-USD", "VET-USD", "VET-USD">>],
       [sector |-> "us_large_cap", tickers |-> <<"AAPL">>] >>

\* [ticker for sector in UNIVERSE.values() for ticker in sector]
RECURSIVE Flatten(_, _)
Flatten(u, i) == IF i > Len(u) THEN <<>> ELSE u[i].tickers \o Flatten(u, i + 1)

ALL_TICKERS == Flatten(UNIVERSE, 1)

\* sec.replace('_', '/').title() of the first sector that lists the ticker.
SectorTitle(sector) ==
    CASE sector = "crypto"       -> "Crypto"
      [] sector = "us_large_cap" -> "Us/Large/Cap"
      [] OTHER                   -> sector

RECURSIVE SectorOf(_, _)
SectorOf(ticker, i) ==
    IF i > Len(UNIVERSE) THEN "Other"
    ELSE IF \E j \in 1..Len(UNIVERSE[i].tickers) : UNIVERSE[i].tickers[j] = ticker
         THEN SectorTitle(UNIVERSE[i].sector)
         ELSE SectorOf(ticker, i + 1)

\* What stock.history() does for one call: it raises, or returns a frame.
\* A frame has its closes, says whether it has a 'Close' column at all, and
\* carries the indicators that come from columns and filters not modelled
\* bar by bar (EWM for MACD, the volume column, the rolling std).
HistoryRaises == [k |-> "raises", close |-> <<>>, has_close |-> FALSE, volume10 |-> 10]
Frame(close, has_close, volume10) ==
    [k |-> "frame", close |-> close, has_close |-> has_close, volume10 |-> volume10]
EmptyFrame == Frame(<<>>, FALSE, 10)

\* fetch_real_data: an exception of the provider becomes an empty DataFrame.
fetch_real_data(outcome) == IF outcome.k = "raises" THEN EmptyFrame ELSE outcome

\* The marker of an exception leaving analyze_asset.
Raised == [k |-> "exception"]

\* analyze_asset, given what the provider answers for the ticker.
analyze_asset(ticker, outcome) ==
    LET h == fetch_real_data(outcome)
    IN  IF Len(h.close) = 0 THEN None                       \* hist.empty
        ELSE IF TooShort(h.close) THEN None                 \* not technicals
        ELSE IF ~h.has_close THEN Raised                    \* KeyError: hist['Close']
        ELSE
          LET c  == calculate_technical_indicators(h.close)
              t  == [ price |-> c.price, sma_20 |-> c.sma_20, sma_50 |-> c.sma_50,
                      rsi |-> c.rsi, momentum_1w |-> c.momentum_1w,
                      momentum_1m |-> c.momentum_1m, momentum_3m |-> c.momentum_3m,
                      macd |-> Flt(0), macd_signal |-> Flt(0),
                      volume_ratio |-> Num(h.volume10, 10), bb_position |-> Num(5, 10) ]
              es == calculate_expert_signal(ticker)
              sg == ai_generate_signal(ticker, t, es)
          IN  [ ticker |-> ticker, name |-> ticker, sector |-> SectorOf(ticker, 1),
                price |-> t.price, score |-> sg.score,
                recommendation |-> sg.recommendation, confidence |-> sg.confidence,
                risk_level |-> sg.risk_level,
                num_experts |-> es.num_experts, experts |-> es.experts,
                momentum_3m |-> t.momentum_3m, momentum_1m |-> t.momentum_1m,
                momentum_1w |-> t.momentum_1w, rsi |-> t.rsi,
                volume_ratio |-> t.volume_ratio,
                trend |-> IF Gt(t.price, t.sma_20) THEN "Bullish" ELSE "Bearish",
                reasoning |-> sg.reasoning ]

\* The body of the loop of run_live_analysis: a None is not appended, and an
\* exception is caught and the loop continues with what it had.
AppendAnalysisOrRestart(rs, analysis) ==
    IF analysis = Raised THEN <<>>
    ELSE IF analysis = None THEN rs
    ELSE Append(rs, analysis)
AppendAnalysis(rs, analysis) ==
    IF analysis = Raised \/ analysis = None THEN rs ELSE Append(rs, analysis)

\* results.sort(key=lambda x: x['score'], reverse=True), stable.
RECURSIVE InsertResult(_, _)
InsertResult(x, sorted) ==
    IF sorted = <<>> THEN <<x>>
    ELSE IF Head(sorted).score >= x.score
         THEN <<Head(sorted)>> \o InsertResult(x, Tail(sorted))
         ELSE <<x>> \o sorted

RECURSIVE SortResults(_, _)
SortResults(s, acc) ==
    IF s = <<>> THEN acc ELSE SortResults(Tail(s), InsertResult(Head(s), acc))

\* random.sample(ALL_TICKERS, k): k distinct positions of the list, in any order.
RECURSIVE PositionOrders(_, _)
PositionOrders(n, k) ==
    IF k = 0 THEN {<<>>}
    ELSE { Append(s, p) : s \in PositionOrders(n, k - 1), p \in 1..n }

SampleOf(list, k) ==
    { [i \in 1..k |-> list[s[i]]] :
        s \in { o \in PositionOrders(Len(list), k) :
                  \A i, j \in 1..k : i # j => o[i] # o[j] } }

\* `if sample_size:` a sample of min(sample_size, len(ALL_TICKERS)) tickers,
\* else the whole list.  sample_size = None is written 0 (both are false).
TestTickers(size) ==
    IF size # 0
    THEN SampleOf(ALL_TICKERS, Min(size, Len(ALL_TICKERS)))
    ELSE {ALL_TICKERS}

\* The sample sizes of the callers: the default, a small sample, and the 50
\* of /api/refresh (more than the abridged list holds).
SampleSizes == {0, 2, 50}

\* The provider's answers during a cycle: an error, an empty history, 19
\* bars, a frame without a Close column, a flat and a rising series.
RisingBars == 60
HistoryOutcomes ==
    { HistoryRaises,
      EmptyFrame,
      Frame(Series(MinBars - 1, 1, [i \in 1..TailLen |-> 1]), TRUE, 10),
      Frame(Series(MinBars, 1, [i \in 1..TailLen |-> 1]), FALSE, 10),
      Frame(Series(MinBars, 0, [i \in 1..TailLen |-> 0]), TRUE, 10),
      Frame(Series(RisingBars, 1, [i \in 1..TailLen |-> 1]), TRUE, 16) }

-----------------------------------------------------------------------------
(* Request handlers: src/app.py and src/api/index.py                       *)
(*                                                                         *)
(* A response is [status, error, body]: error is the text under the        *)
(* 'error' key of the JSON body ("" when the body has no such key), body    *)
(* the rest of the JSON object (None when there is none).                  *)

Response(status, error, body) == [status |-> status, error |-> error, body |-> body]

\* Python truthiness of a number or None: None and 0 are false.
TruthyNum(x) == x # None /\ ~(IsNum(x) /\ x.n = 0)

\* a or b or ... : the first true operand, else the last one.
RECURSIVE OrChain(_)
OrChain(s) ==
    IF Len(s) = 1 \/ TruthyNum(Head(s)) THEN Head(s) ELSE OrChain(Tail(s))

\* What stock.info does for one call: it raises, it is empty, or it is a dict
\* in which each quote field is a number or missing (None).
InfoRaises == [k |-> "raises"]
InfoEmpty  == [k |-> "empty"]
Info(rmp, cp, rmpc, prev, rec) ==
    [ k |-> "info", regularMarketPrice |-> rmp, currentPrice |-> cp,
      regularMarketPreviousClose |-> rmpc, previousClose |-> prev,
      recommendationMean |-> rec ]

InfoOutcomes ==
    { InfoRaises, InfoEmpty }
    \cup { Info(rmp, cp, rmpc, prev, None) :
             rmp \in {None, Flt(5)}, cp \in {None, Flt(6)},
             rmpc \in {None, Flt(7)}, prev \in {None, Flt(0), Flt(8)} }

\* ticker.upper()
Upper(ticker) ==
    CASE ticker = "aapl" -> "AAPL"
      [] ticker = "zzzz" -> "ZZZZ"
      [] OTHER           -> ticker

\* app.py, get_ticker_data
get_ticker_data(ticker, info, history) ==
    IF info = InfoRaises THEN Response(500, "info", None)
    ELSE
      LET real_time_price ==
              IF info # InfoEmpty
              THEN OrChain(<< info.regularMarketPrice, info.currentPrice,
                              info.regularMarketPreviousClose, info.previousClose >>)
              ELSE None
          data == analyze_asset(Upper(ticker), history)
      IN  IF data = Raised THEN Response(500, "analysis", None)
          ELSE IF data = None THEN Response(404, "Ticker not found", None)
          ELSE Response(200, "",
                        IF TruthyNum(real_time_price)
                        THEN [data EXCEPT !.price = real_time_price]
                        ELSE data)

\* api/index.py, ticker_data
ticker_data(ticker, yfinance_available, info) ==
    IF ~yfinance_available THEN Response(503, "yfinance not available", None)
    ELSE IF info = InfoRaises THEN Response(500, "info", None)
    ELSE IF info = InfoEmpty THEN Response(404, "Ticker not found", None)
    ELSE Response(200, "",
                  [ ticker |-> Upper(ticker),
                    price  |-> OrChain(<< info.regularMarketPrice, info.currentPrice,
                                          info.previousClose >>) ])

\* app.py, chatbot_api.  `json` tells whether request.json could be read as
\* an object (else reading it or data.get raises); `answer` is what
\* chatbot.analyze_user_question does with the question: it returns a text
\* or raises.
chatbot_api(json, question, answer) ==
    IF ~json THEN Response(500, "request", None)
    ELSE IF question = "" THEN Response(400, "No question provided", None)
    ELSE IF answer = "raises" THEN Response(500, "chatbot", None)
    ELSE Response(200, "", [response |-> answer])

\* api/index.py, stats: the loop over top_tickers swallows every exception
\* of a ticker; `infos` is what stock.info does for each ticker, `fails`
\* whether something outside the loop raises.
RecommendationLeq(info, tenths) ==
    info.k = "info" /\ info.recommendationMean # None
    /\ Le(info.recommendationMean, Num(tenths, 10))

stats(yfinance_available, infos, fails) ==
    IF ~yfinance_available
    THEN Response(200, "", [total_assets |-> 0, strong_buys |-> 0, buys |-> 0])
    ELSE IF fails
    THEN Response(200, "failure", [total_assets |-> 100, strong_buys |-> 15, buys |-> 30])
    ELSE
      LET strong == { i \in 1..Len(infos) : RecommendationLeq(infos[i], 15) }
          buy    == { i \in 1..Len(infos) : RecommendationLeq(infos[i], 25) } \ strong
      IN  Response(200, "", [ total_assets |-> Len(infos),
                              strong_buys  |-> Cardinality(strong),
                              buys         |-> Cardinality(buy) ])

\* The requests the handlers are run on.
RequestTickers == {"aapl", "ZZZZ"}
Questions      == {"", "what is the outlook"}
Answers        == {"raises", "a text"}

\* top_tickers of stats has 8 entries: the first a raise, the next up to b
\* have a strong-buy mean, the others a hold mean.
TopTickerCount == 8
StatsInfos ==
    { [ i \in 1..TopTickerCount |->
          IF i <= a THEN InfoRaises
          ELSE IF i <= b THEN Info(Flt(5), None, None, None, Flt(1))
          ELSE Info(Flt(5), None, None, None, Flt(3)) ] :
        a \in 0..TopTickerCount, b \in 0..TopTickerCount }

-----------------------------------------------------------------------------
(* Shared market data: src/app.py, update_market_data and refresh_data     *)
(*                                                                         *)
(* The global name market_data is bound to a dict object; update_market_   *)
(* data rebinds the name to a new dict, refresh_data stores into whatever  *)
(* dict the name is bound to at each of its two statements.  A value keeps *)
(* the writer it came from: `by` is [t |-> thread, c |-> cycle].           *)

Writer(t, c) == [t |-> t, c |-> c]

\* market_data = {}: a dict without keys (a missing key is None).
EmptyMarketData == [timestamp |-> None, assets |-> None, total_analyzed |-> None]

\* What run_live_analysis returns to a writer: a list of n assets.
Results(by, n) == [by |-> by, n |-> n]
Timestamp(by, at) == [by |-> by, at |-> at]
TotalAnalyzed(by, n) == [by |-> by, n |-> n]

\* Lines 75-79: the dict update_market_data builds from its results.
NewMarketData(res, at) ==
    [ timestamp      |-> Timestamp(res.by, at),
      assets         |-> res,
      total_analyzed |-> TotalAnalyzed(res.by, res.n) ]

\* market_data['assets'] = results
SetAssets(d, res) == [d EXCEPT !.assets = res]

\* market_data['timestamp'] = datetime.now().isoformat()
SetTimestamp(d, by, at) == [d EXCEPT !.timestamp = Timestamp(by, at)]

RefreshThreads == {"r1", "r2"}
ThreadIds      == {"bg"} \cup RefreshThreads

\* Bounds: cycles of the background loop, and assets in a batch.
MaxCycles == 2
MaxBatch  == 2

\* What run_live_analysis does for a caller: it raises (-1) or returns n assets.
RunOutcomes == -1..MaxBatch

Thread(p, c, res, status) == [pc |-> p, cycle |-> c, results |-> res, status |-> status]

-----------------------------------------------------------------------------
(* Portfolio requests: src/app.py, portfolio_api                           *)
(*                                                                         *)
(* portfolio_data is {} or {'positions': [...]}.  The body of a POST is a  *)
(* JSON object; a field it lacks reads as None (ticker: as "", which is   *)
(* as false as None and equals no stored ticker either).                   *)

HasPositions(pd) == "positions" \in DOMAIN pd

\* any([ticker, shares, price])
AnyGiven(ticker, shares, price) == ticker # "" \/ TruthyNum(shares) \/ TruthyNum(price)

\* all([ticker, shares, price])
AllGiven(ticker, shares, price) == ticker # "" /\ TruthyNum(shares) /\ TruthyNum(price)

\* The dict appended by add_position.
StoredPosition(ticker, shares, price, now) ==
    [ticker |-> ticker, shares |-> shares, price |-> price, added_at |-> now]

\* [p for p in positions if p['ticker'] == ticker]: what a filter with the
\* test reversed would keep.
RECURSIVE KeepSame(_, _)
KeepSame(positions, ticker) ==
    IF positions = <<>> THEN <<>>
    ELSE (IF Head(positions).ticker = ticker THEN <<Head(positions)>> ELSE <<>>)
         \o KeepSame(Tail(positions), ticker)

\* [p for p in positions if p['ticker'] != ticker]
RECURSIVE KeepOthers(_, _)
KeepOthers(positions, ticker) ==
    IF positions = <<>> THEN <<>>
    ELSE (IF Head(positions).ticker # ticker THEN <<Head(positions)>> ELSE <<>>)
         \o KeepOthers(Tail(positions), ticker)

Success(message) == Response(200, "", [success |-> TRUE, message |-> message])

\* portfolio_api: the pair <<portfolio_data afterwards, response>>.
portfolio_api(pd, method, data, now) ==
    IF method = "GET" THEN <<pd, Response(200, "", pd)>>
    ELSE IF data.action = "add_position" THEN
        IF ~AllGiven(data.ticker, data.shares, data.price)
        THEN <<pd, Response(400, "Missing required fields", None)>>
        ELSE << [positions |-> Append(IF HasPositions(pd) THEN pd.positions ELSE <<>>,
                                     StoredPosition(data.ticker, data.shares,
                                                    data.price, now))],
                Success("Position added") >>
    ELSE IF data.action = "remove_position" THEN
        << IF HasPositions(pd)
           THEN [positions |-> KeepOthers(pd.positions, data.ticker)]
           ELSE pd,
           Success("Position removed") >>
    ELSE <<pd, Response(400, "Invalid action", None)>>

\* The bodies the handler is run on.
PortfolioTickers == {"", "AAPL", "MSFT"}
PortfolioShares  == {None, Flt(0), Flt(2)}
PortfolioPrices  == {None, Flt(10), Flt(30)}
PostBody(action, ticker, shares, price) ==
    [action |-> action, ticker |-> ticker, shares |-> shares, price |-> price]

-----------------------------------------------------------------------------
(* Alerts: src/app.py, alerts_api                                          *)

\* The alert a POST builds: id = len(alerts_data) + 1.
NewAlert(ad, ticker, now) ==
    [id |-> Len(ad) + 1, ticker |-> ticker, created_at |-> now, active |-> TRUE]

\* [a for a in alerts_data if a['id'] != alert_id]
RECURSIVE KeepOtherIds(_, _)
KeepOtherIds(ad, alert_id) ==
    IF ad = <<>> THEN <<>>
    ELSE (IF Head(ad).id # alert_id THEN <<Head(ad)>> ELSE <<>>)
         \o KeepOtherIds(Tail(ad), alert_id)

\* alerts_api: the pair <<alerts_data afterwards, response>>.  alert_id is
\* request.args.get('id', type=int), 0 standing for None (no id is 0).
alerts_api(ad, method, ticker, alert_id, now) ==
    IF method = "GET" THEN <<ad, Response(200, "", ad)>>
    ELSE IF method = "POST" THEN
        << Append(ad, NewAlert(ad, ticker, now)),
           Response(200, "", [success |-> TRUE, alert |-> NewAlert(ad, ticker, now)]) >>
    ELSE << KeepOtherIds(ad, alert_id), Success("Alert deleted") >>

AlertTickers == {"AAPL", "MSFT"}

-----------------------------------------------------------------------------
(* Specifications *)

IndicatorIdle == hist = <<>> /\ technicals = None
ScorerIdle    == sig_in = None /\ signal = None
RankerIdle    == market_data = None /\ opportunities = <<>> /\ last_update = 0
                 /\ top_3 = <<>> /\ asset_in = None /\ asset_out = None
ImportIdle    == csv = None /\ quotes = None /\ portfolio = None
                 /\ portfolio_data = EmptyDict
CycleIdle     == sample_size = 0 /\ test_tickers = None /\ fetched = <<>> /\ results = <<>>
                 /\ batch = None
ServerIdle    == request = None /\ response = None /\ served = 0
MarketIdle    == app_market_data = 1 /\ dicts = <<EmptyMarketData>> /\ threads = None
                 /\ clock = 0
AppIdle       == MarketIdle /\ app_portfolio_data = EmptyDict /\ alerts_data = <<>>

\* --- the indicator calculator run on one fetched series
InitIndicators ==
    /\ pc = "ind_ready"
    /\ hist \in SeriesFamily
    /\ technicals = None
    /\ ScorerIdle /\ RankerIdle /\ ImportIdle /\ CycleIdle /\ ServerIdle /\ AppIdle

CalculateTechnicalIndicators ==
    /\ pc = "ind_ready"
    /\ technicals' = calculate_technical_indicators(hist)
    /\ pc' = "ind_done"
    /\ UNCHANGED <<hist, scorerVars, rankerVars, importVars, cycleVars, serverVars, appVars>>

NextIndicators == CalculateTechnicalIndicators

SpecIndicators == InitIndicators /\ [][NextIndicators]_vars

\* --- the scorer run on one set of arguments
InitScorer ==
    /\ pc = "sig_ready"
    /\ \E x \in ScorerExpertSignals, t \in ScorerTechnicals :
           sig_in = [ticker |-> x.ticker, technicals |-> t, expert_signal |-> x.es]
    /\ signal = None
    /\ IndicatorIdle /\ RankerIdle /\ ImportIdle /\ CycleIdle /\ ServerIdle /\ AppIdle

AiGenerateSignal ==
    /\ pc = "sig_ready"
    /\ signal' = ai_generate_signal(sig_in.ticker, sig_in.technicals, sig_in.expert_signal)
    /\ pc' = "sig_done"
    /\ UNCHANGED <<sig_in, indicatorVars, rankerVars, importVars, cycleVars, serverVars, appVars>>

NextScorer == AiGenerateSignal

SpecScorer == InitScorer /\ [][NextScorer]_vars

\* --- a fresh engine asked once for the top opportunities
InitRanker ==
    /\ pc = "rank_ready"
    /\ market_data \in MarketDataFamily
    /\ opportunities = <<>>
    /\ last_update = 0
    /\ top_3 = <<>>
    /\ asset_in = None /\ asset_out = None
    /\ IndicatorIdle /\ ScorerIdle /\ ImportIdle /\ CycleIdle /\ ServerIdle /\ AppIdle

AnalyzeAllOpportunities ==
    /\ pc = "rank_ready"
    /\ IF NoAssets(market_data)
       THEN /\ top_3' = get_default_opportunities
            /\ UNCHANGED <<opportunities, last_update>>
       ELSE /\ top_3' = RankAssets(market_data.assets)
            /\ opportunities' = top_3'
            /\ last_update' = last_update + 1
    /\ pc' = "rank_done"
    /\ UNCHANGED <<market_data, asset_in, asset_out, indicatorVars, scorerVars, importVars, cycleVars, serverVars, appVars>>

NextRanker == AnalyzeAllOpportunities

SpecRanker == InitRanker /\ [][NextRanker]_vars

\* --- one engine called again and again
MaxUpdates == 2
MaxCallAssets == 2

CallPool == { a \in AssetPool : a.ticker \in {"NVDA", "MSFT", "BTC-USD", "KO", ""} }

CallFamily ==
    { [k |-> "none", assets |-> <<>>], [k |-> "empty", assets |-> <<>>] }
    \cup { [k |-> "dict", assets |-> a] : a \in SeqsUpTo(CallPool, MaxCallAssets) }

InitEngine ==
    /\ pc = "engine_ready"
    /\ market_data = None
    /\ opportunities = <<>>
    /\ last_update = 0
    /\ top_3 = <<>>
    /\ asset_in = None /\ asset_out = None
    /\ IndicatorIdle /\ ScorerIdle /\ ImportIdle /\ CycleIdle /\ ServerIdle /\ AppIdle

AnalyzeAgain ==
    /\ pc = "engine_ready"
    /\ \E md \in CallFamily :
          /\ market_data' = md
          /\ IF NoAssets(md)
             THEN /\ top_3' = get_default_opportunities
                  /\ UNCHANGED <<opportunities, last_update>>
             ELSE /\ last_update < MaxUpdates
                  /\ top_3' = RankAssets(md.assets)
                  /\ opportunities' = top_3'
                  /\ last_update' = last_update + 1
    /\ UNCHANGED <<pc, asset_in, asset_out, indicatorVars, scorerVars, importVars, cycleVars,
                   serverVars, appVars>>

NextEngine == AnalyzeAgain

SpecEngine == InitEngine /\ [][NextEngine]_vars

\* --- one asset analysed by a fresh engine
InitAsset ==
    /\ pc = "asset_ready"
    /\ asset_in \in AssetFamily
    /\ asset_out = None
    /\ market_data = None /\ opportunities = <<>> /\ last_update = 0 /\ top_3 = <<>>
    /\ IndicatorIdle /\ ScorerIdle /\ ImportIdle /\ CycleIdle /\ ServerIdle /\ AppIdle

AnalyzeAssetOpportunity ==
    /\ pc = "asset_ready"
    /\ asset_out' = [ profit_probability |-> calculate_profit_probability(asset_in),
                      profit_target      |-> calculate_profit_target(asset_in),
                      risk_level         |-> calculate_risk_level(asset_in),
                      returned           |-> analyze_asset_opportunity(asset_in, 1) ]
    /\ pc' = "asset_done"
    /\ UNCHANGED <<asset_in, market_data, opportunities, last_update, top_3, indicatorVars,
                   scorerVars, importVars, cycleVars, serverVars, appVars>>

NextAsset == AnalyzeAssetOpportunity

SpecAsset == InitAsset /\ [][NextAsset]_vars

\* --- one file imported by a fresh integration object
InitImport ==
    /\ pc = "imp_ready"
    /\ csv \in FileFamily
    /\ quotes \in [ImportTickers -> QuoteOutcomes]
    /\ portfolio = None
    /\ portfolio_data = EmptyDict
    /\ IndicatorIdle /\ ScorerIdle /\ RankerIdle /\ CycleIdle /\ ServerIdle /\ AppIdle

ImportFromCsv ==
    /\ pc = "imp_ready"
    /\ portfolio' = import_from_csv(csv, quotes)
    /\ portfolio_data' = IF csv.readable THEN portfolio' ELSE portfolio_data
    /\ pc' = "imp_done"
    /\ UNCHANGED <<csv, quotes, indicatorVars, scorerVars, rankerVars, cycleVars, serverVars, appVars>>

NextImport == ImportFromCsv

SpecImport == InitImport /\ [][NextImport]_vars

\* --- the same, on the files of a single row, under any header
InitAlias == InitImport /\ csv.readable /\ Len(csv.rows) = 1

SpecAlias == InitAlias /\ [][NextImport]_vars

\* --- one cycle of run_live_analysis
InitCycle ==
    /\ pc = "cycle_ready"
    /\ sample_size \in SampleSizes
    /\ test_tickers = None
    /\ fetched = <<>>
    /\ results = <<>>
    /\ batch = None
    /\ IndicatorIdle /\ ScorerIdle /\ RankerIdle /\ ImportIdle /\ ServerIdle /\ AppIdle

ChooseTickers ==
    /\ pc = "cycle_ready"
    /\ test_tickers' \in TestTickers(sample_size)
    /\ pc' = "cycle_loop"
    /\ UNCHANGED <<sample_size, fetched, results, batch,
                   indicatorVars, scorerVars, rankerVars, importVars, serverVars, appVars>>

AnalyzeTicker ==
    /\ pc = "cycle_loop"
    /\ Len(fetched) < Len(test_tickers)
    /\ \E outcome \in HistoryOutcomes :
          /\ fetched' = Append(fetched, outcome)
          /\ results' = AppendAnalysis(results,
                            analyze_asset(test_tickers[Len(fetched) + 1], outcome))
    /\ UNCHANGED <<pc, sample_size, test_tickers, batch,
                   indicatorVars, scorerVars, rankerVars, importVars, serverVars, appVars>>

FinishCycle ==
    /\ pc = "cycle_loop"
    /\ Len(fetched) = Len(test_tickers)
    /\ results' = SortResults(results, <<>>)
    /\ batch' = results'
    /\ pc' = "cycle_done"
    /\ UNCHANGED <<sample_size, test_tickers, fetched,
                   indicatorVars, scorerVars, rankerVars, importVars, serverVars, appVars>>

NextCycle == ChooseTickers \/ AnalyzeTicker \/ FinishCycle

SpecCycle == InitCycle /\ [][NextCycle]_vars

\* --- a server answering requests one after the other
MaxRequests == 2

InitServer ==
    /\ pc = "srv_ready"
    /\ request = None
    /\ response = None
    /\ served = 0
    /\ IndicatorIdle /\ ScorerIdle /\ RankerIdle /\ ImportIdle /\ CycleIdle /\ AppIdle

Serve(req, resp) ==
    /\ pc = "srv_ready"
    /\ served < MaxRequests
    /\ request' = req
    /\ response' = resp
    /\ served' = served + 1
    /\ UNCHANGED <<pc, indicatorVars, scorerVars, rankerVars, importVars, cycleVars, appVars>>

GetTickerData ==
    \E ticker \in RequestTickers, info \in InfoOutcomes, history \in HistoryOutcomes :
        Serve([handler |-> "get_ticker_data", ticker |-> ticker, info |-> info,
               history |-> history],
              get_ticker_data(ticker, info, history))

TickerData ==
    \E ticker \in RequestTickers, avail \in BOOLEAN, info \in InfoOutcomes :
        Serve([handler |-> "ticker_data", ticker |-> ticker, info |-> info,
               yfinance_available |-> avail],
              ticker_data(ticker, avail, info))

ChatbotApi ==
    \E json \in BOOLEAN, question \in Questions, answer \in Answers :
        Serve([handler |-> "chatbot_api", json |-> json, question |-> question,
               answer |-> answer],
              chatbot_api(json, question, answer))

Stats ==
    \E avail \in BOOLEAN, infos \in StatsInfos, fails \in BOOLEAN :
        Serve([handler |-> "stats", yfinance_available |-> avail, infos |-> infos,
               fails |-> fails],
              stats(avail, infos, fails))

NextServer == GetTickerData \/ TickerData \/ ChatbotApi \/ Stats

SpecServer == InitServer /\ [][NextServer]_vars

\* --- the background loop and two /api/refresh requests, interleaved
InitMarket ==
    /\ pc = "app_run"
    /\ app_market_data = 1
    /\ dicts = <<EmptyMarketData>>
    /\ threads = [t \in ThreadIds |->
                    IF t = "bg" THEN Thread("run", 1, None, 0)
                    ELSE Thread("ready", 0, None, 0)]
    /\ clock = 0
    /\ app_portfolio_data = EmptyDict /\ alerts_data = <<>>
    /\ IndicatorIdle /\ ScorerIdle /\ RankerIdle /\ ImportIdle /\ CycleIdle /\ ServerIdle

MarketFrame ==
    UNCHANGED <<pc, indicatorVars, scorerVars, rankerVars, importVars, cycleVars,
                serverVars, app_portfolio_data, alerts_data>>

\* update_market_data, line 72: results = run_live_analysis(...); an
\* exception goes to the except clause.
BgRun ==
    /\ pc = "app_run" /\ threads["bg"].pc = "run"
    /\ \E n \in RunOutcomes :
          threads' = [threads EXCEPT !["bg"] =
              IF n < 0 THEN [@ EXCEPT !.pc = "except"]
              ELSE [@ EXCEPT !.pc = "store",
                             !.results = Results(Writer("bg", threads["bg"].cycle), n)]]
    /\ UNCHANGED <<app_market_data, dicts, clock>>
    /\ MarketFrame

\* lines 75-79: market_data = {...}
BgStore ==
    /\ pc = "app_run" /\ threads["bg"].pc = "store"
    /\ dicts' = Append(dicts, NewMarketData(threads["bg"].results, clock))
    /\ app_market_data' = Len(dicts) + 1
    /\ clock' = clock + 1
    /\ threads' = [threads EXCEPT !["bg"].pc = "save"]
    /\ MarketFrame

\* lines 82-88: the news, the file; a failure goes to the except clause.
BgSave ==
    /\ pc = "app_run" /\ threads["bg"].pc = "save"
    /\ \E raises \in BOOLEAN :
          threads' = [threads EXCEPT !["bg"].pc = IF raises THEN "except" ELSE "sleep"]
    /\ UNCHANGED <<app_market_data, dicts, clock>>
    /\ MarketFrame

\* An except clause that ends the thread instead of falling through to the sleep.
BgExceptReturns ==
    /\ pc = "app_run" /\ threads["bg"].pc = "except"
    /\ threads' = [threads EXCEPT !["bg"].pc = "returned"]
    /\ UNCHANGED <<app_market_data, dicts, clock>>
    /\ MarketFrame

\* lines 90-91: except Exception as e: print(...), inside the while loop.
BgExcept ==
    /\ pc = "app_run" /\ threads["bg"].pc = "except"
    /\ threads' = [threads EXCEPT !["bg"].pc = "sleep"]
    /\ UNCHANGED <<app_market_data, dicts, clock>>
    /\ MarketFrame

\* line 94: time.sleep(300), then the next cycle.
BgSleep ==
    /\ pc = "app_run" /\ threads["bg"].pc = "sleep"
    /\ threads["bg"].cycle < MaxCycles
    /\ threads' = [threads EXCEPT !["bg"] = Thread("run", @.cycle + 1, None, 0)]
    /\ UNCHANGED <<app_market_data, dicts, clock>>
    /\ MarketFrame

\* refresh_data, line 401: results = run_live_analysis(sample_size=50); an
\* exception is answered 500.
RefreshRun(r) ==
    /\ pc = "app_run" /\ threads[r].pc = "ready"
    /\ \E n \in RunOutcomes :
          threads' = [threads EXCEPT ![r] =
              IF n < 0 THEN [@ EXCEPT !.pc = "done", !.status = 500]
              ELSE [@ EXCEPT !.pc = "assets", !.results = Results(Writer(r, 0), n)]]
    /\ UNCHANGED <<app_market_data, dicts, clock>>
    /\ MarketFrame

\* line 402
RefreshAssets(r) ==
    /\ pc = "app_run" /\ threads[r].pc = "assets"
    /\ dicts' = [dicts EXCEPT ![app_market_data] = SetAssets(@, threads[r].results)]
    /\ threads' = [threads EXCEPT ![r].pc = "timestamp"]
    /\ UNCHANGED <<app_market_data, clock>>
    /\ MarketFrame

\* line 403
RefreshTimestamp(r) ==
    /\ pc = "app_run" /\ threads[r].pc = "timestamp"
    /\ dicts' = [dicts EXCEPT ![app_market_data] = SetTimestamp(@, Writer(r, 0), clock)]
    /\ clock' = clock + 1
    /\ threads' = [threads EXCEPT ![r].pc = "respond"]
    /\ UNCHANGED app_market_data
    /\ MarketFrame

\* lines 405-409
RefreshRespond(r) ==
    /\ pc = "app_run" /\ threads[r].pc = "respond"
    /\ threads' = [threads EXCEPT ![r].pc = "done", ![r].status = 200]
    /\ UNCHANGED <<app_market_data, dicts, clock>>
    /\ MarketFrame

NextMarket ==
    \/ BgRun \/ BgStore \/ BgSave \/ BgExcept \/ BgSleep
    \/ \E r \in RefreshThreads : RefreshRun(r)
    \/ \E r \in RefreshThreads : RefreshAssets(r)
    \/ \E r \in RefreshThreads : RefreshTimestamp(r)
    \/ \E r \in RefreshThreads : RefreshRespond(r)

SpecMarket == InitMarket /\ [][NextMarket]_vars

\* The background thread is a started thread (line 98) and each of its steps
\* ends: run_live_analysis returns or raises, time.sleep(300) returns.
BgStep == BgRun \/ BgStore \/ BgSave \/ BgExcept \/ BgSleep

\* The loop next to a single refresh request.
NextLoop ==
    \/ BgStep
    \/ RefreshRun("r1") \/ RefreshAssets("r1") \/ RefreshTimestamp("r1")
    \/ RefreshRespond("r1")

SpecLoop == InitMarket /\ [][NextLoop]_vars /\ WF_vars(BgStep)

\* --- portfolio requests answered one after the other
MaxPortfolioRequests == 4

InitPortfolio ==
    /\ pc = "pf_ready"
    /\ app_portfolio_data = EmptyDict
    /\ clock = 0
    /\ ServerIdle
    /\ app_market_data = 1 /\ dicts = <<EmptyMarketData>> /\ threads = None
    /\ alerts_data = <<>>
    /\ IndicatorIdle /\ ScorerIdle /\ RankerIdle /\ ImportIdle /\ CycleIdle

PortfolioRequest(method, data) ==
    LET out == portfolio_api(app_portfolio_data, method, data, clock)
    IN  /\ pc = "pf_ready"
        /\ served < MaxPortfolioRequests
        /\ app_portfolio_data' = out[1]
        /\ response' = out[2]
        /\ request' = [handler |-> "portfolio_api", method |-> method, data |-> data]
        /\ served' = served + 1
        /\ clock' = IF method = "POST" /\ data.action = "add_position"
                       /\ out[2].status = 200
                    THEN clock + 1 ELSE clock
        /\ UNCHANGED <<pc, indicatorVars, scorerVars, rankerVars, importVars, cycleVars,
                       app_market_data, dicts, threads, alerts_data>>

PortfolioGet == PortfolioRequest("GET", PostBody("", "", None, None))

AddPosition ==
    \E ticker \in PortfolioTickers, shares \in PortfolioShares, price \in PortfolioPrices :
        PortfolioRequest("POST", PostBody("add_position", ticker, shares, price))

RemovePosition ==
    \E ticker \in PortfolioTickers :
        PortfolioRequest("POST", PostBody("remove_position", ticker, None, None))

OtherAction == PortfolioRequest("POST", PostBody("rebalance", "", None, None))

NextPortfolio == PortfolioGet \/ AddPosition \/ RemovePosition \/ OtherAction

SpecPortfolio == InitPortfolio /\ [][NextPortfolio]_vars

\* --- alert requests answered one after the other
MaxAlertRequests == 4

InitAlerts ==
    /\ pc = "al_ready"
    /\ alerts_data = <<>>
    /\ clock = 0
    /\ ServerIdle
    /\ app_market_data = 1 /\ dicts = <<EmptyMarketData>> /\ threads = None
    /\ app_portfolio_data = EmptyDict
    /\ IndicatorIdle /\ ScorerIdle /\ RankerIdle /\ ImportIdle /\ CycleIdle

AlertRequest(method, ticker, alert_id) ==
    LET out == alerts_api(alerts_data, method, ticker, alert_id, clock)
    IN  /\ pc = "al_ready"
        /\ served < MaxAlertRequests
        /\ alerts_data' = out[1]
        /\ response' = out[2]
        /\ request' = [handler |-> "alerts_api", method |-> method, ticker |-> ticker,
                       id |-> alert_id]
        /\ served' = served + 1
        /\ clock' = IF method = "DELETE" THEN clock ELSE clock + 1
        /\ UNCHANGED <<pc, indicatorVars, scorerVars, rankerVars, importVars, cycleVars,
                       app_market_data, dicts, threads, app_portfolio_data>>

AlertsGet == AlertRequest("GET", "", 0)

CreateAlert == \E ticker \in AlertTickers : AlertRequest("POST", ticker, 0)

DeleteAlert == \E alert_id \in 0..MaxAlertRequests : AlertRequest("DELETE", "", alert_id)

NextAlerts == AlertsGet \/ CreateAlert \/ DeleteAlert

SpecAlerts == InitAlerts /\ [][NextAlerts]_vars

\* --- any one of the components
Init == InitIndicators \/ InitScorer \/ InitRanker \/ InitEngine \/ InitAsset \/ InitImport \/ InitCycle \/ InitServer
        \/ InitMarket \/ InitPortfolio \/ InitAlerts

Next == \/ CalculateTechnicalIndicators
        \/ AiGenerateSignal
        \/ AnalyzeAllOpportunities
        \/ AnalyzeAgain
        \/ AnalyzeAssetOpportunity
        \/ ImportFromCsv
        \/ ChooseTickers
        \/ AnalyzeTicker
        \/ FinishCycle
        \/ GetTickerData
        \/ TickerData
        \/ ChatbotApi
        \/ Stats
        \/ NextMarket
        \/ NextPortfolio
        \/ NextAlerts

Spec == Init /\ [][Next]_vars

-----------------------------------------------------------------------------
(* Properties *)

\* C1: a series of fewer than 20 bars (0 and 19 included) makes
\* calculate_technical_indicators return the empty dict, never a dict with
\* some indicator set.
C1_ShortSeriesGivesEmpty ==
    (pc = "ind_done" /\ Len(hist) < 20) => DOMAIN technicals = {}

C1_Witness ==
    pc = "ind_done" /\ Len(hist) = 19 /\ technicals = EmptyDict

\* C10 (as claimed): for a series with at least 14 deltas the RSI is a number
\* in [0,100], 100 for a window of gains only, 0 for a window of losses only,
\* also when the average loss, or both averages, are 0.
OnlyGains(close)  == RollingSum("gain", close, Len(close), 14) > 0
                     /\ RollingSum("loss", close, Len(close), 14) = 0
OnlyLosses(close) == RollingSum("loss", close, Len(close), 14) > 0
                     /\ RollingSum("gain", close, Len(close), 14) = 0

C10_RsiInRange ==
    (pc = "ind_done" /\ Len(hist) >= 20) =>
        /\ IsNum(technicals.rsi)
        /\ Ge(technicals.rsi, Flt(0)) /\ Le(technicals.rsi, Flt(100))
        /\ OnlyGains(hist) => technicals.rsi = Flt(100)
        /\ OnlyLosses(hist) => Ge(Flt(0), technicals.rsi)

\* C2: whatever the inputs, the score ai_generate_signal returns is in [0,100].
C2_ScoreInRange ==
    pc = "sig_done" => (signal.score >= 0 /\ signal.score <= 100)

C2_Witness ==
    /\ pc = "sig_done"
    /\ sig_in.expert_signal.expert_weight = 100
    /\ signal.score = 100

\* C3: the recommendation is the tier of the score (>= 75 STRONG BUY, >= 65 BUY,
\* >= 50 MODERATE BUY, >= 40 HOLD, >= 30 MODERATE SELL, >= 20 SELL, else STRONG
\* SELL), one tier for every score in [0,100], and confidence and risk_level
\* depend on the tier only.
TierOf(score) ==
    CASE score >= 75                -> "STRONG BUY"
      [] score >= 65 /\ score < 75  -> "BUY"
      [] score >= 50 /\ score < 65  -> "MODERATE BUY"
      [] score >= 40 /\ score < 50  -> "HOLD"
      [] score >= 30 /\ score < 40  -> "MODERATE SELL"
      [] score >= 20 /\ score < 30  -> "SELL"
      [] score < 20                 -> "STRONG SELL"

C3_TierIsFunctionOfScore ==
    /\ pc = "sig_done" =>
           /\ signal.recommendation = TierOf(signal.score)
           /\ \A s \in 0..100 :
                  Recommend(s).recommendation = signal.recommendation
                      => /\ Recommend(s).confidence = signal.confidence
                         /\ Recommend(s).risk_level = signal.risk_level
    /\ \A s \in 0..100 : Recommend(s).recommendation = TierOf(s)

C3_Witness ==
    /\ pc = "sig_done"
    /\ signal.score = 65
    /\ signal.recommendation = "BUY"
    /\ signal.confidence = "Medium-High"

\* C4: analyze_all_opportunities returns at most 3 opportunities, each with
\* profit_probability >= 0.75, profit_target >= 0.15 and risk_level <= 0.20,
\* for every market_data, empty or absent included.
C4_AtMostThreeAllWithinThresholds ==
    pc = "rank_done" =>
        /\ Len(top_3) <= 3
        /\ \A i \in 1..Len(top_3) :
               /\ top_3[i].profit_probability >= 7500
               /\ top_3[i].profit_target >= 1500
               /\ top_3[i].risk_level <= 2000

\* Three returned out of four assets that pass, next to one that fails.
C4_Witness ==
    /\ pc = "rank_done"
    /\ Len(market_data.assets) = 4
    /\ Len(top_3) = 3
    /\ \E i \in 1..4 : market_data.assets[i].ticker = "BTC-USD"

\* C5: for a batch with assets the result is the first three of the passing
\* assets ordered by profit_score descending, equal scores in input order.
PassingAssets(assets) ==
    { i \in 1..Len(assets) :
        /\ assets[i].ticker # ""
        /\ calculate_profit_probability(assets[i]) >= 7500
        /\ calculate_profit_target(assets[i]) >= 1500
        /\ calculate_risk_level(assets[i]) <= 2000 }

ScoreOfAsset(asset) ==
    ProfitScore(calculate_profit_probability(asset), calculate_profit_target(asset),
                calculate_risk_level(asset))

\* i comes before j in the descending order that keeps ties in input order.
RanksBefore(assets, i, j) ==
    \/ ScoreOfAsset(assets[i]) > ScoreOfAsset(assets[j])
    \/ ScoreOfAsset(assets[i]) = ScoreOfAsset(assets[j]) /\ i < j

C5_FirstThreeByScoreStable ==
    (pc = "rank_done" /\ ~NoAssets(market_data)) =>
        LET assets   == market_data.assets
            passing  == PassingAssets(assets)
            returned == { top_3[j].src : j \in 1..Len(top_3) }
        IN  /\ Len(top_3) = Min(3, Cardinality(passing))
            /\ Cardinality(returned) = Len(top_3)
            /\ returned \subseteq passing
            /\ \A j \in 1..Len(top_3) :
                   /\ top_3[j].ticker = assets[top_3[j].src].ticker
                   /\ top_3[j].profit_score = ScoreOfAsset(assets[top_3[j].src])
            /\ \A j, k \in 1..Len(top_3) :
                   j < k => /\ top_3[j].profit_score >= top_3[k].profit_score
                            /\ RanksBefore(assets, top_3[j].src, top_3[k].src)
            /\ \A i \in passing \ returned, j \in returned : RanksBefore(assets, j, i)

\* Four passing assets, two of them with the same profit_score and both returned.
C5_Witness ==
    /\ pc = "rank_done"
    /\ Cardinality(PassingAssets(market_data.assets)) = 4
    /\ Len(top_3) = 3
    /\ top_3[1].profit_score = top_3[2].profit_score
    /\ top_3[1].ticker # top_3[2].ticker
    /\ top_3[1].src > 1

\* Rational arithmetic on the weights.
RatAdd(x, y) == Num(x.n * y.d + y.n * x.d, x.d * y.d)
RECURSIVE RatSum(_)
RatSum(s) == IF s = <<>> THEN Flt(0) ELSE RatAdd(Head(s), RatSum(Tail(s)))
RatEq(x, y) == x.n * y.d = y.n * x.d

Imported == pc = "imp_done" /\ csv.readable

\* C6 (as claimed): in the portfolio import_from_csv returns with at least one
\* position, every weight is value / total_value * 100 and the weights sum to
\* 100, with or without current prices in the rows and whatever the price
\* refresh changed.
C6_WeightsSumTo100 ==
    (Imported /\ Len(portfolio.positions) > 0) =>
        LET ps == portfolio.positions
        IN  /\ portfolio.total_value > 0
            /\ \A i \in 1..Len(ps) :
                   RatEq(ps[i].weight, Num(ps[i].value * 100, portfolio.total_value))
            /\ RatEq(RatSum([i \in 1..Len(ps) |-> ps[i].weight]), Flt(100))

\* The current price cell the importer reads from the row of position p.
RowPrice(p) == extract_current_price(csv.rows[p.row])

ValueAtRead(p) == IF RowPrice(p) # None THEN p.shares * RowPrice(p).v ELSE 0

RECURSIVE Ascending(_)
Ascending(S) ==
    IF S = {} THEN <<>>
    ELSE LET m == CHOOSE x \in S : \A y \in S : x <= y
         IN  <<m>> \o Ascending(S \ {m})

HasTicker(r)   == extract_instrument(r) # None /\ extract_instrument(r).s # ""
HasQuantity(r) == extract_quantity(r) # None
HasAvgPrice(r) == extract_avg_price(r) # None

\* A row with a ticker, a quantity that parses and an average price.
Complete(r) == HasTicker(r) /\ HasQuantity(r) /\ HasAvgPrice(r)

\* ... of which neither the quantity nor the average price is zero.
CompleteNonZero(r) ==
    Complete(r) /\ extract_quantity(r).v # 0 /\ extract_avg_price(r).v # 0

PositionsAre(rowIdx) ==
    LET ps == portfolio.positions
    IN  /\ Len(ps) = Len(rowIdx)
        /\ \A i \in 1..Len(ps) :
               /\ ps[i].row = rowIdx[i]
               /\ ps[i].ticker = extract_instrument(csv.rows[rowIdx[i]]).s
               /\ ps[i].shares = extract_quantity(csv.rows[rowIdx[i]]).v
               /\ ps[i].avg_price = extract_avg_price(csv.rows[rowIdx[i]]).v

\* C8 (as claimed): a row without ticker, quantity or average price, or with a
\* quantity that does not parse, is skipped and the import goes on; every
\* other row gives exactly one position, in row order.
C8_OnePositionPerCompleteRow ==
    Imported => /\ portfolio # EmptyDict
                /\ PositionsAre(Ascending({ i \in 1..Len(csv.rows) : Complete(csv.rows[i]) }))

\* C8 (amended): the same, where a row whose quantity or average price is
\* zero is skipped as well.
C8_OnePositionPerCompleteNonZeroRow ==
    Imported => /\ portfolio # EmptyDict
                /\ PositionsAre(Ascending({ i \in 1..Len(csv.rows) :
                                                    CompleteNonZero(csv.rows[i]) }))

\* Three rows, the second with quantity "abc": the other two are imported.
C8_Witness ==
    /\ Imported
    /\ Len(csv.rows) = 3
    /\ csv.rows[2]["Quantity"] = TextCell("abc")
    /\ Len(portfolio.positions) = 2
    /\ portfolio.positions[1].row = 1
    /\ portfolio.positions[2].row = 3

\* The cell that counts for field f of a row: under the first alias, in
\* priority order, whose column is there with a value (for a numeric field, a
\* value that parses).
Usable(f, cell) == NotNa(cell) /\ (f # "instrument" => Parses(cell))

WinningAlias(r, f) ==
    LET have == { i \in 1..4 : ColsOf(f)[i] \in DOMAIN r /\ Usable(f, r[ColsOf(f)[i]]) }
    IN  IF have = {} THEN 0 ELSE CHOOSE i \in have : \A j \in have : i <= j

\* The row with every field under its canonical header.
Canonical(r) ==
    MakeRow([f \in Fields |->
                IF WinningAlias(r, f) = 0 THEN OnlyAt(1, Absent)
                ELSE OnlyAt(1, r[ColsOf(f)[WinningAlias(r, f)]])])

-----------------------------------------------------------------------------
(* Properties of the analysis cycle *)

\* The analysis of a ticker succeeded: the provider returned a frame of at
\* least 20 bars and nothing raised while it was analysed.
AnalysisSucceeded(outcome) ==
    outcome.k = "frame" /\ Len(outcome.close) >= 20 /\ outcome.has_close

CycleTickers == { ALL_TICKERS[i] : i \in 1..Len(ALL_TICKERS) }

EntriesFor(list, tk) == Cardinality({ i \in 1..Len(list) : list[i].ticker = tk })

SucceededFor(tk) ==
    Cardinality({ i \in 1..Len(fetched) :
                    test_tickers[i] = tk /\ AnalysisSucceeded(fetched[i]) })

\* C11: the results of a cycle hold a scored asset for exactly the tickers
\* whose fetch, indicators and scoring succeeded; an empty history, fewer than
\* 20 bars or an exception contributes no entry, and the cycle goes on to every
\* later ticker before it publishes.
C11_ResultsAreTheSucceededTickers ==
    /\ pc \in {"cycle_loop", "cycle_done"} =>
          /\ \A tk \in CycleTickers : EntriesFor(results, tk) = SucceededFor(tk)
          /\ \A i \in 1..Len(results) : results[i].score \in 0..100
    /\ pc = "cycle_done" =>
          /\ Len(fetched) = Len(test_tickers)
          /\ \A tk \in CycleTickers : EntriesFor(batch, tk) = SucceededFor(tk)

\* A finished cycle in which a ticker raised, another had no history, and a
\* later ticker was analysed and published.
C11_Witness ==
    /\ pc = "cycle_done"
    /\ \E i, j, l \in 1..Len(fetched) :
          /\ i < l /\ j < l
          /\ fetched[i].k = "frame" /\ Len(fetched[i].close) >= 20 /\ ~fetched[i].has_close
          /\ Len(fetched[j].close) < 20
          /\ AnalysisSucceeded(fetched[l])
          /\ \E b \in 1..Len(batch) : batch[b].ticker = test_tickers[l]

\* C12 (as claimed): the batch a cycle returns holds at most one scored asset
\* per ticker, for the whole universe and for a sample.
C12_AtMostOneAssetPerTicker ==
    pc = "cycle_done" =>
        \A i, j \in 1..Len(batch) : i # j => batch[i].ticker # batch[j].ticker

-----------------------------------------------------------------------------
(* Properties of the request handlers *)

\* The provider has no quote for the ticker: no info at all, or an info
\* without any of the price fields.
NoQuoteInfo(info) ==
    \/ info = InfoEmpty
    \/ /\ info.k = "info"
       /\ info.regularMarketPrice = None /\ info.currentPrice = None
       /\ info.regularMarketPreviousClose = None /\ info.previousClose = None

EmptyHistory(history) == history.k = "frame" /\ Len(history.close) = 0

UnknownTicker(req) ==
    \/ /\ req.handler = "get_ticker_data"
       /\ req.info # InfoRaises
       /\ NoQuoteInfo(req.info) \/ EmptyHistory(req.history)
    \/ /\ req.handler = "ticker_data"
       /\ req.yfinance_available
       /\ NoQuoteInfo(req.info)

\* C13 (as claimed): a request for a ticker the provider does not know (no
\* quote info, or an empty history) is answered 404 with an error body, never
\* with a success that carries a null price.
C13_UnknownTickerIsNotFound ==
    (response # None /\ UnknownTicker(request)) =>
        /\ response.status = 404
        /\ response.error # ""

\* Something raised while the handler ran.
HandlerFailed(req) ==
    \/ /\ req.handler = "get_ticker_data"
       /\ \/ req.info = InfoRaises
          \/ analyze_asset(Upper(req.ticker), req.history) = Raised
    \/ /\ req.handler = "ticker_data"
       /\ req.yfinance_available /\ req.info = InfoRaises
    \/ /\ req.handler = "chatbot_api"
       /\ ~req.json \/ (req.question # "" /\ req.answer = "raises")
    \/ /\ req.handler = "stats"
       /\ req.yfinance_available
       /\ req.fails \/ \E i \in 1..Len(req.infos) : req.infos[i] = InfoRaises

\* C14 (as claimed): a failure raised while a handler runs becomes a response
\* with an error text and a 4xx/5xx status, never one with a success status.
C14_FailuresBecomeErrorResponses ==
    (response # None /\ HandlerFailed(request)) =>
        /\ response.status >= 400
        /\ response.error # ""

-----------------------------------------------------------------------------
(* Properties of the shared market data *)

\* The dict the global market_data names.
CurrentMarketData == dicts[app_market_data]

\* No writer is between its run and the end of its writes.
NoWriteInFlight ==
    /\ threads # None
    /\ threads["bg"].pc \in {"run", "sleep"}
    /\ \A r \in RefreshThreads : threads[r].pc \in {"ready", "done"}

\* C15 (as claimed): once overlapping writers have finished, market_data is
\* the complete batch of one writer, the last: its assets and its timestamp come
\* from the same writer.
C15_LastWriterWinsWhole ==
    (NoWriteInFlight /\ CurrentMarketData.assets # None) =>
        /\ CurrentMarketData.timestamp # None
        /\ CurrentMarketData.assets.by = CurrentMarketData.timestamp.by

\* C17 (as claimed): after any sequence of cycles and refreshes, market_data
\* holds timestamp, assets and total_analyzed of the same cycle, and
\* total_analyzed is the number of assets.
C17_BatchRebuiltWholesale ==
    (NoWriteInFlight /\ CurrentMarketData # EmptyMarketData) =>
        /\ CurrentMarketData.timestamp # None
        /\ CurrentMarketData.assets # None
        /\ CurrentMarketData.total_analyzed # None
        /\ CurrentMarketData.total_analyzed.by = CurrentMarketData.assets.by
        /\ CurrentMarketData.timestamp.by = CurrentMarketData.assets.by
        /\ CurrentMarketData.total_analyzed.n = CurrentMarketData.assets.n

-----------------------------------------------------------------------------
(* Properties of the portfolio requests *)

StoredPositions == IF HasPositions(app_portfolio_data) THEN app_portfolio_data.positions ELSE <<>>

\* The step is the answer to a remove_position request.
RemoveAnswered ==
    /\ served' = served + 1
    /\ request'.handler = "portfolio_api" /\ request'.method = "POST"
    /\ request'.data.action = "remove_position"

\* C16: remove_position for ticker T drops every stored position whose
\* ticker is T and keeps every other position, unchanged and in its order;
\* when T is not held or the portfolio is empty nothing changes; the answer is
\* a success in every case.
C16_RemoveDropsWholeEntries ==
    [][ RemoveAnswered =>
          LET old  == StoredPositions
              kept == Ascending({ i \in 1..Len(old) : old[i].ticker # request'.data.ticker })
          IN  /\ StoredPositions' = [j \in 1..Len(kept) |-> old[kept[j]]]
              /\ (Len(kept) = Len(old) => app_portfolio_data' = app_portfolio_data)
              /\ response'.status = 200
              /\ response'.body.success ]_vars

\* Three positions were added and one removal dropped the first and the
\* third (same ticker) and kept the second.
C16_Witness ==
    /\ pc = "pf_ready"
    /\ served = 4 /\ clock = 3
    /\ request.method = "POST" /\ request.data.action = "remove_position"
    /\ response.status = 200
    /\ Len(StoredPositions) = 1
    /\ StoredPositions[1].added_at = 1
    /\ StoredPositions[1].ticker # request.data.ticker

\* C18 (as claimed): in a non-empty portfolio every stored position carries
\* weight = value / total_value * 100 over the current positions.
C18_StoredWeightsAreCurrent ==
    pc = "pf_ready" =>
        \A i \in 1..Len(StoredPositions) :
            LET p == StoredPositions[i]
            IN  /\ {"weight", "value"} \subseteq DOMAIN p
                /\ p.weight * SumSeq([j \in 1..Len(StoredPositions) |->
                                         StoredPositions[j].value])
                     = 100 * p.value

-----------------------------------------------------------------------------
(* Properties of the score formula and of the momentum *)

ClaimedExpert(es) == es.expert_weight * 4

ClaimedMomentum(t) ==
    IF Gt(t.momentum_3m, Flt(15)) THEN 25
    ELSE IF Gt(t.momentum_3m, Flt(5)) THEN 15
    ELSE IF Lt(t.momentum_3m, Flt(-15)) THEN -10
    ELSE 0

ClaimedTechnical(t) ==
    (IF Gt(t.price, t.sma_20) /\ Gt(t.sma_20, t.sma_50) THEN 10
     ELSE IF Lt(t.price, t.sma_20) THEN -5 ELSE 0)
    + (IF Gt(t.rsi, Flt(40)) /\ Lt(t.rsi, Flt(60)) THEN 5
       ELSE IF Lt(t.rsi, Flt(30)) THEN 8
       ELSE IF Gt(t.rsi, Flt(70)) THEN -5 ELSE 0)
    + (IF Gt(t.macd, t.macd_signal) THEN 5 ELSE 0)

ClaimedVolume(t) ==
    IF Gt(t.volume_ratio, Num(15, 10)) THEN 10
    ELSE IF Gt(t.volume_ratio, Num(12, 10)) THEN 5
    ELSE 0

ClaimedSum(t, es) ==
    ClaimedExpert(es) + ClaimedMomentum(t) + ClaimedTechnical(t) + ClaimedVolume(t)

\* C19: the score is the sum of the expert, momentum, technical (trend, RSI,
\* MACD) and volume components with the stated points, clamped to [0,100]; the
\* RSI band 40-60 is the open interval.
C19_ScoreIsClampedSum ==
    pc = "sig_done" =>
        LET sum == ClaimedSum(sig_in.technicals, sig_in.expert_signal)
        IN  signal.score = (IF sum < 0 THEN 0 ELSE IF sum > 100 THEN 100 ELSE sum)

\* Every component contributes and nothing is clamped: 40 + 25 + 20 + 5 = 90.
C19_Witness ==
    /\ pc = "sig_done"
    /\ ClaimedExpert(sig_in.expert_signal) = 40
    /\ ClaimedMomentum(sig_in.technicals) = 25
    /\ ClaimedTechnical(sig_in.technicals) = 20
    /\ ClaimedVolume(sig_in.technicals) = 5
    /\ signal.score = 90

\* (close[-1] / close[-1-k] - 1) * 100, and 0 when the series has no bar k
\* bars before the last.
MomentumOverBars(close, k) ==
    IF Len(close) > k
    THEN Num(100 * (close[Len(close)] - close[Len(close) - k]), close[Len(close) - k])
    ELSE Flt(0)

\* C20 (as claimed): for k = 5, 20 and 60 the momentum compares the last
\* close with the close k bars earlier, and is 0 when the series is too short
\* to hold that bar.
C20_MomentumOverKBars ==
    (pc = "ind_done" /\ Len(hist) >= 20) =>
        /\ RatEq(technicals.momentum_1w, MomentumOverBars(hist, 5))
        /\ RatEq(technicals.momentum_1m, MomentumOverBars(hist, 20))
        /\ RatEq(technicals.momentum_3m, MomentumOverBars(hist, 60))

-----------------------------------------------------------------------------
(* Properties of the reasoning list *)

\* The kinds of entries in the order claimed, and in the order of the code.
ClaimedKinds == <<"experts", "momentum", "trend", "rsi", "macd", "bollinger">>
AppendedKinds == <<"experts", "momentum", "trend", "rsi", "macd", "volume", "bollinger">>

RankIn(kinds, kind) == CHOOSE i \in 1..Len(kinds) : kinds[i] = kind

\* Every entry is of one of the kinds, and the kinds appear in their order.
InOrderOf(kinds, list) ==
    /\ \A i \in 1..Len(list) : \E j \in 1..Len(kinds) : kinds[j] = list[i]
    /\ \A i, j \in 1..Len(list) : i < j => RankIn(kinds, list[i]) < RankIn(kinds, list[j])

\* C21 (as claimed): the reasoning list is in the order experts, momentum,
\* trend, RSI, MACD, Bollinger.
C21_ReasoningInClaimedOrder ==
    pc = "sig_done" => InOrderOf(ClaimedKinds, signal.reasoning)

\* C21 (amended): the reasoning list is in the order experts, momentum, trend,
\* RSI, MACD, volume, Bollinger: an entry of a later kind never precedes one of
\* an earlier kind.
C21_ReasoningInAppendedOrder ==
    pc = "sig_done" => InOrderOf(AppendedKinds, signal.reasoning)

\* All seven kinds fired.
C21_Witness ==
    /\ pc = "sig_done"
    /\ signal.reasoning = AppendedKinds

-----------------------------------------------------------------------------
(* Properties of the estimates of one asset *)

\* The asset's numbers as the formulas of the estimates read them.
MomentumOf(asset) == asset.momentum_3m.n \div asset.momentum_3m.d
RsiIn(asset, lo, hi) ==
    /\ asset.rsi.k = "num"
    /\ lo * asset.rsi.d <= asset.rsi.n
    /\ asset.rsi.n <= hi * asset.rsi.d
RsiOutside(asset, lo, hi) ==
    /\ asset.rsi.k = "num"
    /\ (asset.rsi.n < lo * asset.rsi.d \/ asset.rsi.n > hi * asset.rsi.d)
Volume100(asset) == (asset.volume_ratio.n * 100) \div asset.volume_ratio.d

Clamp(lo, hi, x) == IF x < lo THEN lo ELSE IF x > hi THEN hi ELSE x

\* (score/100) * momentum_factor * rsi_factor * volume_factor * expert_factor,
\* in units of 1/10^8.
ClaimedProbabilityProduct(asset) ==
    LET m == MomentumOf(asset)
        mf == CASE m > 15 -> 12 [] m <= 15 /\ m > 5 -> 11 [] m < -15 -> 7
                [] m >= -15 /\ m < -5 -> 8 [] OTHER -> 10
        rf == CASE RsiIn(asset, 30, 70) -> 11 [] RsiOutside(asset, 20, 80) -> 8
                [] OTHER -> 10
        vf == CASE Volume100(asset) > 150 -> 115 [] Volume100(asset) < 70 -> 90
                [] OTHER -> 100
        ef == 100 + 5 * Len(asset.experts)
    IN  asset.score * mf * rf * vf * ef

ClaimedProbability(asset) ==
    Clamp(50000000, 95000000, ClaimedProbabilityProduct(asset)) \div 10000

\* C22: the profit probability of every analysed asset is the product of
\* score/100 and the momentum, RSI, volume and expert factors, clamped to
\* [0.5, 0.95]; an opportunity reports that same value.
C22_ProfitProbabilityIsClampedProduct ==
    pc = "asset_done" =>
        /\ asset_out.profit_probability = ClaimedProbability(asset_in)
        /\ asset_out.profit_probability \in 5000..9500
        /\ asset_out.returned # None =>
              asset_out.returned.profit_probability = ClaimedProbability(asset_in)

\* score 80, momentum 20, RSI 55, volume ratio 1.6, two experts: 1.33584,
\* clamped to 0.95.
C22_Witness ==
    /\ pc = "asset_done"
    /\ asset_in.score = 80 /\ asset_in.momentum_3m = Flt(20) /\ asset_in.rsi = Flt(55)
    /\ asset_in.volume_ratio = Num(16, 10) /\ Len(asset_in.experts) = 2
    /\ ClaimedProbabilityProduct(asset_in) = 133584000
    /\ asset_out.profit_probability = 9500

\* The sector table of the volatility estimate, in 1/100.
ClaimedVolatility(asset) ==
    CASE asset.sector = "Crypto"       -> 60
      [] asset.sector = "Us/Small/Cap" -> 40
      [] asset.sector \in {"Technology", "Biotech"} -> 30
      [] asset.sector = "Us/Large/Cap" -> 20
      [] OTHER                         -> 25

\* (score/100) * 0.30 * momentum_multiplier * (1 + (volatility - 0.2)), in
\* units of 1/10^7.
ClaimedTargetProduct(asset) ==
    LET m == MomentumOf(asset)
        mm == CASE m > 20 -> 13 [] m <= 20 /\ m > 10 -> 12 [] m <= 10 /\ m > 0 -> 11
                [] OTHER -> 9
    IN  asset.score * 30 * mm * (100 + (ClaimedVolatility(asset) - 20))

ClaimedTarget(asset) == Clamp(1000000, 5000000, ClaimedTargetProduct(asset)) \div 1000

\* C23: the profit target of every analysed asset is (score/100) * 0.30 times
\* the momentum multiplier and 1 + (volatility - 0.2), with the volatility of
\* the asset's sector, clamped to [0.10, 0.50]; an opportunity reports that
\* same value.
C23_ProfitTargetIsClampedProduct ==
    pc = "asset_done" =>
        /\ asset_out.profit_target = ClaimedTarget(asset_in)
        /\ asset_out.profit_target \in 1000..5000
        /\ asset_out.returned # None =>
              asset_out.returned.profit_target = ClaimedTarget(asset_in)

\* A target strictly inside the clamp, from a volatility other than the
\* default: 0.8 * 0.30 * 1.1 * 1.4 = 0.3696.
C23_Witness ==
    /\ pc = "asset_done"
    /\ asset_in.score = 80 /\ asset_in.momentum_3m = Flt(5) /\ asset_in.sector = "Crypto"
    /\ asset_out.profit_target = 3696

\* 0.4*(100-score)/100 + 0.3*min(0.3, |momentum|/100) + 0.2*min(0.4, volatility)
\* + 0.1*sector_risk, in units of 1/10^5.
ClaimedRiskSum(asset) ==
    LET sector_risk == CASE asset.sector = "Crypto"       -> 3000
                         [] asset.sector = "Us/Small/Cap" -> 2000
                         [] asset.sector = "Biotech"      -> 2500
                         [] OTHER                         -> 0
    IN  4 * (100 - asset.score) * 100
        + 3 * Clamp(0, 3000, Abs(MomentumOf(asset)) * 100)
        + 2 * Clamp(0, 4000, ClaimedVolatility(asset) * 100)
        + sector_risk

ClaimedRisk(asset) == Clamp(5000, 40000, ClaimedRiskSum(asset)) \div 10

\* C24: the risk level of every analysed asset is the weighted sum of the
\* base, momentum, volatility and sector risks, clamped to [0.05, 0.4]; an
\* opportunity reports that same value.
C24_RiskLevelIsClampedSum ==
    pc = "asset_done" =>
        /\ asset_out.risk_level = ClaimedRisk(asset_in)
        /\ asset_out.risk_level \in 500..4000
        /\ asset_out.returned # None =>
              asset_out.returned.risk_level = ClaimedRisk(asset_in)

\* All four terms at work, the momentum risk capped: 0.4*0.2 + 0.3*0.3
\* + 0.2*0.3 + 0.1*0.25 = 0.255.
C24_Witness ==
    /\ pc = "asset_done"
    /\ asset_in.score = 80 /\ asset_in.momentum_3m = Flt(40) /\ asset_in.sector = "Biotech"
    /\ asset_out.risk_level = 2550

\* A rational in lowest terms.
RECURSIVE Gcd(_, _)
Gcd(a, b) == IF b = 0 THEN a ELSE Gcd(b, a % b)
Lowest(x) == LET g == Gcd(x.n, x.d) IN IF g = 0 THEN x ELSE Num(x.n \div g, x.d \div g)

\* x * p / q
Scaled(x, p, q) == Lowest(Num(Lowest(x).n * p, Lowest(x).d * q))

ClaimedEntry(asset) ==
    LET m == MomentumOf(asset)
    IN  IF m > 15 THEN Scaled(asset.price, 98, 100)
        ELSE IF m > 5 THEN Scaled(asset.price, 99, 100)
        ELSE Lowest(asset.price)

\* C25: an opportunity of an asset with a positive price has the price less
\* 2% (momentum above 15), less 1% (above 5) or unchanged as its entry price,
\* and entry_price * (1 - (0.10 + 0.15 * risk_level)), for the risk level it
\* reports, as its stop loss; so stop_loss < entry_price <= current_price.
C25_EntryAndStopLoss ==
    (pc = "asset_done" /\ asset_out.returned # None /\ Gt(asset_in.price, Flt(0))) =>
        LET opp   == asset_out.returned
            entry == Lowest(opp.entry_price)
            stop  == Lowest(opp.stop_loss)
        IN  /\ entry = ClaimedEntry(asset_in)
            /\ stop = Scaled(entry, 1000000 - (100000 + 15 * opp.risk_level), 1000000)
            /\ Lt(stop, entry)
            /\ Le(entry, Lowest(opp.current_price))
            /\ opp.current_price = asset_in.price

\* An opportunity entered 2% under the price: 50 -> 49, risk 0.123,
\* stop 49 * 0.88155.
C25_Witness ==
    /\ pc = "asset_done"
    /\ asset_out.returned # None
    /\ asset_in.price = Flt(50) /\ asset_in.momentum_3m = Flt(21)
    /\ asset_out.returned.entry_price = Num(4900, 100)
    /\ asset_out.returned.risk_level = 1230
    /\ Lowest(asset_out.returned.stop_loss) = Num(863919, 20000)

-----------------------------------------------------------------------------
(* Properties of the alerts *)

\* C26: the stored alerts have pairwise distinct ids.
C26_AlertIdsDistinct ==
    pc = "al_ready" =>
        \A i, j \in 1..Len(alerts_data) :
            i # j => alerts_data[i].id # alerts_data[j].id

-----------------------------------------------------------------------------
(* Properties of the imported total *)

\* C27: in the portfolio import_from_csv returns, total_value is the sum of
\* the values of its positions, also after the price refresh filled a value in.
C27_TotalValueIsSumOfValues ==
    Imported =>
        portfolio.total_value
            = SumSeq([i \in 1..Len(portfolio.positions) |-> portfolio.positions[i].value])

-----------------------------------------------------------------------------
(* Properties of the background loop *)

BgAt(position, cycle) == threads["bg"].pc = position /\ threads["bg"].cycle = cycle

\* The step takes the background thread from run_live_analysis to the except
\* clause.
RunRaised == threads["bg"].pc = "run" /\ threads'["bg"].pc = "except"

\* C28: a cycle of the background loop that raised, at any step, is followed
\* by the sleep and then by the start of the next cycle; a cycle that raised
\* before storing its results leaves the published market_data as it was.
C28_LoopSurvivesFailedCycle ==
    /\ \A c \in 1..(MaxCycles - 1) :
          /\ (pc = "app_run" /\ BgAt("except", c)) ~> BgAt("sleep", c)
          /\ (pc = "app_run" /\ BgAt("except", c)) ~> BgAt("run", c + 1)
    /\ [][ (pc = "app_run" /\ RunRaised) => UNCHANGED <<app_market_data, dicts>> ]_vars

\* The second cycle has started although the first one raised before it
\* stored anything: the global still names the dict of the start.
C28_Witness ==
    /\ pc = "app_run"
    /\ BgAt("run", 2)
    /\ app_market_data = 1 /\ Len(dicts) = 1
    /\ threads["r1"].pc = "done" /\ threads["r1"].status = 500
    /\ dicts[1] = EmptyMarketData

-----------------------------------------------------------------------------
(* Properties of the calls without assets *)

\* The call's market_data is None, {} or has no asset.
CalledWithoutAssets ==
    \/ market_data'.k = "none"
    \/ market_data'.k = "empty"
    \/ Len(market_data'.assets) = 0

TickersOf(list) == [i \in 1..Len(list) |-> list[i].ticker]

\* C29: a call of analyze_all_opportunities with market_data that is None,
\* empty or without assets returns the three default opportunities NVDA, MSFT,
\* AAPL and leaves opportunities and last_update as they were; a call with
\* assets stores what it returns and sets last_update.
C29_DefaultsLeaveEngineAlone ==
    [][ pc = "engine_ready" =>
          IF CalledWithoutAssets
          THEN /\ TickersOf(top_3') = <<"NVDA", "MSFT", "AAPL">>
               /\ opportunities' = opportunities
               /\ last_update' = last_update
          ELSE /\ opportunities' = top_3'
               /\ last_update' # last_update
               /\ \A i \in 1..Len(top_3') : top_3'[i].src > 0 ]_vars

\* A call with a dict whose asset list is empty returned the defaults after an
\* earlier call had stored an opportunity.
C29_Witness ==
    /\ pc = "engine_ready"
    /\ market_data.k = "dict" /\ market_data.assets = <<>>
    /\ TickersOf(top_3) = <<"NVDA", "MSFT", "AAPL">>
    /\ Len(opportunities) > 0 /\ opportunities[1].src > 0
    /\ last_update = 1

-----------------------------------------------------------------------------
(* Properties of the rejected and the accepted portfolio requests *)

\* The step is the answer to a POST with the given action.
PostAnswered(action) ==
    /\ served' = served + 1
    /\ request'.handler = "portfolio_api" /\ request'.method = "POST"
    /\ request'.data.action = action

\* The step answers 400 with an error and leaves the portfolio as it was.
Rejected ==
    /\ response'.status = 400
    /\ response'.error # ""
    /\ app_portfolio_data' = app_portfolio_data

\* The step appends one position with the request's fields and keeps the
\* others as they were.
AppendedOne ==
    LET old == StoredPositions
        new == StoredPositions'
    IN  /\ response'.status = 200
        /\ Len(new) = Len(old) + 1
        /\ \A i \in 1..Len(old) : new[i] = old[i]
        /\ new[Len(new)].ticker = request'.data.ticker
        /\ new[Len(new)].shares = request'.data.shares
        /\ new[Len(new)].price = request'.data.price

\* The request has the field at all.
NamesTicker(data) == data.ticker # ""
HasNumber(x) == x # None

\* The field is there and is not empty or zero.
NonZero(x) == x # None /\ x # Flt(0)

\* C30 (as claimed): an add_position request lacking ticker, shares or price,
\* and a request with an unknown action, is answered 400 and leaves the
\* portfolio as it was; an add_position request that has all three fields
\* appends exactly one position and changes no other.
C30_LackingFieldsRejected ==
    [][ /\ PostAnswered("add_position") =>
             IF NamesTicker(request'.data) /\ HasNumber(request'.data.shares)
                /\ HasNumber(request'.data.price)
             THEN AppendedOne ELSE Rejected
        /\ PostAnswered("rebalance") => Rejected ]_vars

\* C30 (amended): an add_position request in which ticker, shares or price is
\* missing, empty or zero, and a request with an unknown action, is answered
\* 400 and leaves the portfolio as it was; an add_position request with a
\* non-empty ticker and non-zero shares and price appends exactly one position
\* and changes no other.
C30_FalsyFieldsRejected ==
    [][ /\ PostAnswered("add_position") =>
             IF NamesTicker(request'.data) /\ NonZero(request'.data.shares)
                /\ NonZero(request'.data.price)
             THEN AppendedOne ELSE Rejected
        /\ PostAnswered("rebalance") => Rejected ]_vars

\* After two positions were stored, an add_position with shares 0 was
\* answered 400: the two are still the only ones.
C30_Witness ==
    /\ pc = "pf_ready"
    /\ served = 3
    /\ request.method = "POST" /\ request.data.action = "add_position"
    /\ request.data.ticker = "AAPL" /\ request.data.shares = Flt(0)
    /\ request.data.price = Flt(10)
    /\ response.status = 400
    /\ Len(StoredPositions) = 2

=============================================================================
